---- MODULE Spec2Model ----
(***************************************************************************)
(* Verification model of SupabaseMirror: the webhook middleware that keeps *)
(* a Supabase table and a Google Sheet in sync (src/index.js), its record  *)
(* mapping and fingerprinting (src/lib/sync-logic.js), the ingress guard   *)
(* (webhook-middleware, second half of src/lib/sync-logic.js) and the      *)
(* single-subscriber registry (second half of src/lib/redis-client.js).    *)
(***************************************************************************)
EXTENDS Integers, Sequences, FiniteSets, TLC

VARIABLES
  fpIn, fpOut,          \* calculateFingerprint: arguments and results
  mapIn, mapOut,        \* mapSheetsToSupabase / mapSupabaseToSheets: arguments, result
  now,                  \* Date.now() in ms
  idempotencyCache,     \* webhook-middleware: key -> expiry timestamp
  fingerprintCache,     \* webhook-middleware: fingerprint -> expiry timestamp
  sourceHitCounters,    \* webhook-middleware: source -> {hits, firstHitTime, pauseUntil}
  last,                 \* the request the middleware handled last, and its answer
  hist,                 \* history of the requests handled so far (see HistInit)
  handlers,             \* WebhookRegistry: eventType -> handler
  firstReg,             \* eventType -> the handler of its first register call that returned
  regLast,              \* the registry call made last, and its outcome
  sheetHeaders,         \* Google Sheet: row 1 of the tab
  sheet,                \* Google Sheet: the rows below row 1
  db,                   \* Supabase table: id -> record
  locks,                \* Redis: *_processing:<table>:<id> -> expiry
  lastfingerprint,      \* Redis: lastfingerprint:<table>:<id> -> fingerprint
  localFingerprints,    \* index.js: localFingerprints
  shifted,              \* Redis: shifted:<table>:<id> -> expiry
  rowindex,             \* Redis: rowindex:<table>:<id> -> row number
  headerCache,          \* index.js: headerCache entry of the table
  pending,              \* webhook calls the stores have made, not yet arrived
  task,                 \* the events being handled: slot -> event and position
  lastDone,             \* the event answered last, and the answer
  edits,                \* external edits made so far
  lastWrite,            \* the last row written to the sheet, what it replaced and
                        \* the position that was stored for it
  localLocks,           \* index.js: localLocks, with the instant the timer of a
                        \* sheets entry deletes it at
  sheetsQueue,          \* index.js: sheetsQueue, the interval it has open and the
                        \* instants its latest tasks started at
  valid_categories,     \* Redis: the set valid_categories
  syncCategoriesPc,     \* index.js: where a run of syncCategories stands
  eventKeys,            \* Redis: event:<eventId> -> expiry
  mark,                 \* a state the run went through, seen from its own clock
  markWrote,            \* a store was written since mark was taken
  upserts,              \* the <<id, fingerprint>> of the sheets events upserted so far
  peer                  \* webhook-middleware: the three Maps of a second server process

pureVars == <<fpIn, fpOut, mapIn, mapOut>>
guardVars == <<now, idempotencyCache, fingerprintCache, sourceHitCounters, last, hist>>
regVars == <<handlers, firstReg, regLast>>
vars == <<fpIn, fpOut, mapIn, mapOut,
          now, idempotencyCache, fingerprintCache, sourceHitCounters, last, hist,
          handlers, firstReg, regLast,
          sheetHeaders, sheet, db, locks, lastfingerprint, localFingerprints,
          shifted, rowindex, headerCache, pending, task, lastDone, edits,
          lastWrite, sheetsQueue, localLocks, valid_categories, syncCategoriesPc, eventKeys, mark, markWrote, upserts, peer>>
syncVars == <<sheetHeaders, sheet, db, locks, lastfingerprint, localFingerprints,
              shifted, rowindex, headerCache, pending, task, lastDone, edits,
              lastWrite, sheetsQueue, localLocks, valid_categories, syncCategoriesPc, eventKeys, mark, markWrote, upserts>>
exceptPure == <<guardVars, regVars, syncVars, peer>>
exceptGuard == <<pureVars, regVars, syncVars, peer>>
exceptReg == <<pureVars, guardVars, syncVars, peer>>
exceptSync == <<pureVars, regVars, hist, peer>>

----------------------------------------------------------------------------
(* JavaScript values.  A value is a record [t, s]: t is the JavaScript     *)
(* type and s is what String(value) returns, so that 99 and "99" are two   *)
(* values with the same string form.  Strings are atoms; the atoms "u1",   *)
(* "u2", "c1" stand for strings of the shape UUID_REGEX accepts and        *)
(* "2024-01-01T10:00:00Z" for one ISO_DATE_REGEX accepts.                  *)

V(t, s) == [t |-> t, s |-> s]
Str(s) == V("str", s)
Num(s) == V("num", s)
Bool(s) == V("bool", s)
Null == V("null", "null")
Undef == V("undef", "undefined")
NaN == V("num", "NaN")

ToStr(v) == v.s

Truthy(v) ==
  CASE v.t = "str" -> v.s # ""
    [] v.t = "num" -> v.s \notin {"0", "NaN"}
    [] v.t = "bool" -> v.s = "true"
    [] OTHER -> FALSE

UuidStrings == {"u1", "u2", "c1"}

\* The clock of the orchestrator's runs stops at MaxLoopNow; the instants a
\* timestamp is taken at are the multiples of 2.5 seconds up to there.
MaxLoopNow == 140000
\* EX 86400 (src/index.js:321): the longest life of a stored fingerprint.
DAY_MS == 86400000
ClockInstants == {k * 2500 : k \in 0..(MaxLoopNow \div 2500)} \cup {DAY_MS}
\* new Date(t).toISOString(): the ISO text of the instant t ms.
toISOString(t) == "T" \o ToString(t)
\* The ISO texts of the model with their instants; "2024-01-01T10:00:00Z" is
\* an hour before the clock starts.
IsoTexts ==
  {<<toISOString(t), t>> : t \in ClockInstants} \cup {<<"2024-01-01T10:00:00Z", -3600000>>}
IsoDateStrings == {p[1] : p \in IsoTexts}
NotADate == -1
\* new Date(s).getTime()
DateMs(s) ==
  IF s \in IsoDateStrings THEN (CHOOSE p \in IsoTexts : p[1] = s)[2] ELSE NotADate

\* Number(s) for a string s, as the decimal text of the number.
NumericText(s) ==
  CASE s \in {"99", "99.0"} -> "99"
    [] s = "120" -> "120"
    [] s = "1" -> "1"
    [] s \in {"0", ""} -> "0"
    [] OTHER -> "NaN"

ToNumber(v) ==
  CASE v.t = "num" -> v
    [] v.t = "str" -> Num(NumericText(v.s))
    [] v.t = "bool" -> Num(IF v.s = "true" THEN "1" ELSE "0")
    [] v.t = "null" -> Num("0")
    [] OTHER -> NaN

IsPositive(n) == n.s \in {"99", "120", "1"}

\* String.prototype.toLowerCase on the atoms of the model.
ToLower(s) ==
  CASE s = "TRUE" -> "true"
    [] s = "FALSE" -> "false"
    [] s = "NULL" -> "null"
    [] s = "Tea" -> "tea"
    [] s = "Chai" -> "chai"
    [] s = "ID" -> "id"
    [] s = "Name" -> "name"
    [] OTHER -> s

UUID_REGEX(s) == s \in UuidStrings
ISO_DATE_REGEX(s) == s \in IsoDateStrings
\* !isNaN(Date.parse(s)): ISO dates, and the bare numbers V8's legacy parser takes.
DateParses(s) == s \in IsoDateStrings \/ (s # "" /\ NumericText(s) # "NaN")
IncludesColon(s) == s \in IsoDateStrings
StrLen2(s) == s \notin {"", "1", "0"}

----------------------------------------------------------------------------
(* JavaScript objects: a sequence of <<key, value>> pairs in insertion     *)
(* order, each key once.                                                   *)

EmptyObj == << >>
HasKey(o, k) == \E i \in 1..Len(o) : o[i][1] = k
Get(o, k) ==
  IF HasKey(o, k) THEN o[CHOOSE i \in 1..Len(o) : o[i][1] = k][2] ELSE Undef
Put(o, k, v) ==
  IF HasKey(o, k)
  THEN [i \in 1..Len(o) |-> IF o[i][1] = k THEN <<k, v>> ELSE o[i]]
  ELSE Append(o, <<k, v>>)
ObjKeys(o) == [i \in 1..Len(o) |-> o[i][1]]
ObjValues(o) == [i \in 1..Len(o) |-> o[i][2]]
DelKey(o, k) == SelectSeq(o, LAMBDA p : p[1] # k)

SeqMin(S) == CHOOSE i \in S : \A j \in S : i <= j
\* Array.prototype.findIndex, 1-based; 0 stands for -1.
FindIndex(a, P(_)) ==
  LET hits == {i \in 1..Len(a) : P(a[i])}
  IN IF hits = {} THEN 0 ELSE SeqMin(hits)
\* Array.prototype.find.
Find(a, P(_)) ==
  LET i == FindIndex(a, P) IN IF i = 0 THEN Undef ELSE a[i]
\* a[i] of a JavaScript array, position i counted from 1.
At(a, i) == IF i \in 1..Len(a) THEN a[i] ELSE Undef

----------------------------------------------------------------------------
(* Header names.                                                           *)

\* Every header name of the model in the order Array.prototype.sort puts
\* them (UTF-16 code units: upper case before lower case).
KeyOrder ==
  <<"", "ID", "Name", "category_id", "created_at", "description", "id",
    "is_paid", "is_veg", "name", "price", "source", "synced_at", "updated_at">>
Rank(k) == CHOOSE i \in 1..Len(KeyOrder) : KeyOrder[i] = k

RECURSIVE InsertSorted(_, _)
InsertSorted(s, k) ==
  IF s = << >> THEN <<k>>
  ELSE IF Rank(k) < Rank(Head(s)) THEN <<k>> \o s
  ELSE <<Head(s)>> \o InsertSorted(Tail(s), k)

RECURSIVE SortKeys(_)
\* keys.sort()
SortKeys(keys) ==
  IF keys = << >> THEN << >>
  ELSE InsertSorted(SortKeys(Tail(keys)), Head(keys))

\* header.trim().toLowerCase()
KeyOf(h) == ToLower(h)
EndsWithId(k) == k \in {"category_id"}
EndsWithAt(k) == k \in {"created_at", "synced_at", "updated_at"}
StartsWithIs(k) == k \in {"is_paid", "is_veg"}
IncludesId(k) == k \in {"id", "category_id", "is_paid"}

----------------------------------------------------------------------------
(* src/lib/sync-logic.js: the Record Normalizer.                           *)

\* mapSupabaseToSheets(record, headers): the row aligned to the header
\* positions; typeof null === 'object', so a null is written as the text
\* JSON.stringify gives it.
CellOf(val) ==
  IF val = Undef THEN Str("")
  ELSE IF val.t = "null" THEN Str("null")
  ELSE val

mapSupabaseToSheets(record, headers) ==
  IF Len(headers) = 0 THEN ObjValues(record)
  ELSE [i \in 1..Len(headers) |-> CellOf(Get(record, headers[i]))]

numericFields == {"price", "amount", "quantity", "sort_order", "total_amount"}

IsIdHeader(h) == h # "" /\ KeyOf(h) = "id"
IsUuidCell(v) == Truthy(v) /\ UUID_REGEX(ToStr(v))

\* 1. GREEDY ID RECOVERY
RecoverRowId(row, headers) ==
  LET idColIndex == FindIndex(headers, IsIdHeader)
      rowId == IF idColIndex # 0 THEN At(row, idColIndex) ELSE Null
      found == Find(row, IsUuidCell)
  IN IF ~Truthy(rowId) \/ ~UUID_REGEX(ToStr(rowId))
     THEN (IF Truthy(found) THEN found ELSE rowId)
     ELSE rowId

\* TYPE SAFETY: Boolean Validation
BoolCell(val) ==
  IF val.t = "str"
  THEN (LET lv == ToLower(val.s)
        IN IF lv \in {"true", "1"} THEN Bool("true")
           ELSE IF lv \in {"false", "0"} THEN Bool("false")
           ELSE Null)
  ELSE IF val.t # "bool" THEN Null
  ELSE val

\* A validation that stores 0 for a cell that is not a number.
NumCell_Zero(val) ==
  LET num == ToNumber(val) IN IF num = NaN THEN Num("0") ELSE num

\* TYPE SAFETY: Numeric Validation
NumCell(val) ==
  LET num == ToNumber(val) IN IF num = NaN THEN Null ELSE num

\* 2. PRIMARY MAPPING: the value stored for one header.
MapCell(key, cell, rowId) ==
  LET v0 == IF key = "id" THEN rowId ELSE cell
      v1 == IF v0 = Str("") \/ v0 = Undef
               \/ (v0.t = "str" /\ ToLower(v0.s) = "null")
            THEN Null ELSE v0
      v2 == IF Truthy(v1) /\ (EndsWithId(key) \/ key = "id")
               /\ ~UUID_REGEX(ToStr(v1))
            THEN Null ELSE v1
      v3 == IF Truthy(v2) /\ (EndsWithAt(key) \/ key = "timestamp")
               /\ ~(ISO_DATE_REGEX(ToStr(v2)) \/ DateParses(ToStr(v2)))
            THEN Null ELSE v2
      v4 == IF Truthy(v3) /\ key \in {"name", "title"}
               /\ (UUID_REGEX(ToStr(v3)) \/ ISO_DATE_REGEX(ToStr(v3))
                   \/ (DateParses(ToStr(v3)) /\ IncludesColon(ToStr(v3))))
            THEN Null ELSE v3
      v5 == IF Truthy(v4) /\ key \in numericFields THEN NumCell(v4) ELSE v4
  IN IF StartsWithIs(key) THEN BoolCell(v5) ELSE v5

RECURSIVE MapHeaders(_, _, _, _, _)
\* headers.forEach((header, index) => ...), from position i on.
MapHeaders(row, headers, rowId, i, record) ==
  IF i > Len(headers) THEN record
  ELSE IF headers[i] = "" THEN MapHeaders(row, headers, rowId, i + 1, record)
  ELSE MapHeaders(row, headers, rowId, i + 1,
         Put(record, headers[i], MapCell(KeyOf(headers[i]), At(row, i), rowId)))

\* 3. SMART RECOVERY
IsNameCandidate(v) ==
  /\ Truthy(v) /\ v.t = "str" /\ StrLen2(v.s)
  /\ ToLower(v.s) \notin {"sheets", "supabase", "null", "undefined", "true", "false"}
  /\ ~UUID_REGEX(v.s)
  /\ ~ISO_DATE_REGEX(v.s)
  /\ ~(DateParses(v.s) /\ IncludesColon(v.s))
  /\ ToNumber(v) = NaN

IsPriceCandidate(v) ==
  /\ v \notin {Null, Undef, Str("")} /\ v.t # "bool"
  /\ ToLower(ToStr(v)) \notin {"true", "false"}
  /\ ToNumber(v) # NaN /\ IsPositive(ToNumber(v))

RecoverName(record, row) ==
  LET nameCandidate == Find(row, IsNameCandidate)
  IN IF ~Truthy(Get(record, "name")) /\ Truthy(nameCandidate)
     THEN Put(record, "name", nameCandidate) ELSE record

RecoverPrice(record, row) ==
  LET priceCandidate == Find(row, IsPriceCandidate)
  IN IF ~Truthy(Get(record, "price")) /\ Get(record, "price") # Num("0")
        /\ Truthy(priceCandidate)
     THEN Put(record, "price", ToNumber(priceCandidate)) ELSE record

RecoverCategory(record, row, rowId) ==
  LET IsOtherUuid(v) == IsUuidCell(v) /\ v # rowId
      catIdCandidate == Find(row, IsOtherUuid)
  IN IF ~Truthy(Get(record, "category_id")) /\ Truthy(catIdCandidate)
     THEN Put(record, "category_id", catIdCandidate) ELSE record

mapSheetsToSupabase(row, headers) ==
  LET rowId == RecoverRowId(row, headers)
      mapped == MapHeaders(row, headers, rowId, 1, EmptyObj)
  IN RecoverCategory(RecoverPrice(RecoverName(mapped, row), row), row, rowId)

----------------------------------------------------------------------------
(* src/lib/sync-logic.js: the Fingerprint Service.                         *)

metadataFields == {"synced_at", "created_at", "source", "updated_at"}

\* The coercion left out: a value is hashed with its JavaScript type.
FpCoerce_Typed(v) == v

\* String(record[key]): every business value is hashed as its string form.
FpCoerce(v) == Str(ToStr(v))

RECURSIVE Normalize(_, _, _)
\* keys.forEach(key => ...) over the sorted keys: the object `normalized`.
Normalize(record, keys, normalized) ==
  IF keys = << >> THEN normalized
  ELSE LET key == Head(keys)
           val == Get(record, key)
       IN Normalize(record, Tail(keys),
            IF key \in metadataFields THEN normalized
            ELSE IF val # Undef /\ val # Null THEN Put(normalized, key, FpCoerce(val))
            ELSE IF val = Null THEN Put(normalized, key, Null)
            ELSE normalized)

NoKeys == <<"<null>">>
\* The array calculateFingerprint sorts: includeKeys itself when it is given.
FpKeys(record, includeKeys) ==
  SortKeys(IF includeKeys = NoKeys THEN ObjKeys(record) ELSE includeKeys)

\* calculateFingerprint(record, includeKeys).  The md5 digest of
\* JSON.stringify(normalized) is modelled by the text it digests.
calculateFingerprint(record, includeKeys) ==
  Normalize(record, FpKeys(record, includeKeys), EmptyObj)

----------------------------------------------------------------------------
(* webhook-middleware (src/lib/sync-logic.js, from line 251): the Ingress  *)
(* Guard.  The middleware is synchronous: one request is one step.         *)

FINGERPRINT_TTL_MS == 30000
LOOP_WINDOW_MS == 60000
LOOP_THRESHOLD == 10
LOOP_PAUSE_DURATION_MS == 90000
IDEMPOTENCY_TTL_MS == 600000
FIVE_SECONDS_MS == 5000

Sources == {"supabase", "sheets"}
NoKey == "<no key>"

\* A cleanup that already drops an entry at its expiry instant.
cleanupCache_Eager(cache) ==
  [k \in {x \in DOMAIN cache : ~(now >= cache[x])} |-> cache[k]]

\* cleanupCache(cache): the entries with now > expiry are deleted.
cleanupCache(cache) ==
  [k \in {x \in DOMAIN cache : ~(now > cache[x])} |-> cache[k]]

MapSet(m, k, v) == [x \in DOMAIN m \cup {k} |-> IF x = k THEN v ELSE m[x]]

\* Math.floor(now / 5000) * 5000
timeWindow5s == (now \div FIVE_SECONDS_MS) * FIVE_SECONDS_MS

\* md5(`${source}:${bodyString}:${timeWindow5s}`), modelled by the text hashed.
RequestFingerprint(source, body) == <<source, body, timeWindow5s>>

\* The counter the loop detection starts from.
CounterOf(source) ==
  IF source \in DOMAIN sourceHitCounters THEN sourceHitCounters[source]
  ELSE [hits |-> 0, firstHitTime |-> now, pauseUntil |-> 0]

\* 1. Idempotency Key Check
IdempotencyHit(key) ==
  key # NoKey /\ key \in DOMAIN cleanupCache(idempotencyCache)

\* A replay that sets the key again: its expiry moves with every carrier.
IdempotencyAfter_Refresh(key) ==
  IF key = NoKey THEN idempotencyCache
  ELSE MapSet(cleanupCache(idempotencyCache), key, now + IDEMPOTENCY_TTL_MS)

IdempotencyAfter(key) ==
  IF key = NoKey THEN idempotencyCache
  ELSE IF IdempotencyHit(key) THEN cleanupCache(idempotencyCache)
  ELSE MapSet(cleanupCache(idempotencyCache), key, now + IDEMPOTENCY_TTL_MS)

\* 2. Fingerprinting Feature
FingerprintHit(source, body) ==
  RequestFingerprint(source, body) \in DOMAIN cleanupCache(fingerprintCache)

FingerprintAfter(source, body) ==
  IF FingerprintHit(source, body) THEN cleanupCache(fingerprintCache)
  ELSE MapSet(cleanupCache(fingerprintCache), RequestFingerprint(source, body),
              now + FINGERPRINT_TTL_MS)

\* A breaker that never holds its pause.
LoopPaused_Never(source) == FALSE

\* 3. Loop Detection: the answer and the counter that is stored.
LoopPaused(source) == CounterOf(source).pauseUntil > now
WindowElapsed(source) == now - CounterOf(source).firstHitTime > LOOP_WINDOW_MS
LoopTripped(source) ==
  ~LoopPaused(source) /\ ~WindowElapsed(source)
    /\ CounterOf(source).hits + 1 > LOOP_THRESHOLD

CounterAfter(source) ==
  LET c == CounterOf(source)
  IN IF WindowElapsed(source) THEN [hits |-> 1, firstHitTime |-> now, pauseUntil |-> 0]
     ELSE IF c.hits + 1 > LOOP_THRESHOLD
     THEN [c EXCEPT !.hits = c.hits + 1, !.pauseUntil = now + LOOP_PAUSE_DURATION_MS]
     ELSE [c EXCEPT !.hits = c.hits + 1]

\* What webhookMiddleware answers.
Answer(source, key, body) ==
  IF IdempotencyHit(key) THEN "Idempotent OK"
  ELSE IF FingerprintHit(source, body) THEN "Duplicate Suppressed"
  ELSE IF LoopPaused(source) THEN "429 Loop Breaker Pause"
  ELSE IF LoopTripped(source) THEN "429 Loop Breaker Triggered"
  ELSE "next"

\* webhookMiddleware(req, res, next) of createWebhookMiddleware(source).
webhookMiddleware(source, key, body) ==
  LET answer == Answer(source, key, body)
  IN /\ idempotencyCache' = IdempotencyAfter(key)
     /\ fingerprintCache' =
          IF answer = "Idempotent OK" THEN fingerprintCache
          ELSE FingerprintAfter(source, body)
     /\ sourceHitCounters' =
          IF answer \in {"next", "429 Loop Breaker Triggered"}
          THEN MapSet(sourceHitCounters, source, CounterAfter(source))
          ELSE sourceHitCounters
     /\ last' = [source |-> source, key |-> key, body |-> body, t |-> now,
                 answer |-> answer]

----------------------------------------------------------------------------
(* WebhookRegistry (src/lib/redis-client.js, from line 14).  _clear() is a *)
(* test hook no code calls; it is not part of the model.                   *)

EventTypes == {"supabase", "sheets", "test_event"}
Handlers == {"supabaseHandler", "sheetsHandler", "mockHandler1", "mockHandler2"}
NoHandler == "<none>"

\* constructor()
RegIdle ==
  /\ handlers = << >>
  /\ firstReg = [e \in EventTypes |-> NoHandler]
  /\ regLast = [op |-> "", eventType |-> "", handler |-> NoHandler, had |-> FALSE,
                out |-> ""]

\* A register that binds the new handler whatever was bound before.
RegisterAfter_Overwrite(eventType, handler) == MapSet(handlers, eventType, handler)

\* this.handlers after register(eventType, handler)
RegisterAfter(eventType, handler) ==
  IF eventType \in DOMAIN handlers THEN handlers
  ELSE MapSet(handlers, eventType, handler)

\* register(eventType, handler): throws the conflict error or returns.
register(eventType, handler) ==
  LET throws == eventType \in DOMAIN handlers
  IN /\ handlers' = RegisterAfter(eventType, handler)
     /\ firstReg' = IF ~throws /\ firstReg[eventType] = NoHandler
                    THEN [firstReg EXCEPT ![eventType] = handler]
                    ELSE firstReg
     /\ regLast' = [op |-> "register", eventType |-> eventType, handler |-> handler,
                    had |-> firstReg[eventType] # NoHandler,
                    out |-> IF throws THEN "Conflict" ELSE "registered"]
     /\ UNCHANGED exceptReg

\* The handler returned by dispatch(eventType) serves one request.
dispatch(eventType) ==
  /\ handlers' = handlers
  /\ firstReg' = firstReg
  /\ regLast' = [op |-> "dispatch", eventType |-> eventType, handler |-> NoHandler,
                 had |-> firstReg[eventType] # NoHandler,
                 out |-> IF eventType \in DOMAIN handlers THEN handlers[eventType]
                         ELSE "Handler not found"]
  /\ UNCHANGED exceptReg

----------------------------------------------------------------------------
(* src/index.js: the orchestrator.  One table is synchronised.  A handler  *)
(* advances from one group of awaited calls to the next; the p-queue task  *)
(* of supabaseHandler is one step.  Redis is reachable in these actions,   *)
(* so localLocks stays empty; the handlers of an outage come further down. *)
(* Not modelled: DELETE events.                                            *)

HEADER_CACHE_TTL == 60000
SUPABASE_LOCK_TTL_MS == 10000
SHEETS_LOCK_TTL_MS == 5000
SHIFTED_TTL_MS == 60000

Slots == {1, 2}
\* The ids of menu_categories, which syncCategories selects
validCategories == {"c1"}

MapDel(m, k) == [x \in DOMAIN m \ {k} |-> m[x]]
NoCache == << >>

NoEvent ==
  [src |-> "none", type |-> "", record |-> EmptyObj, row |-> << >>, timestamp |-> "",
   eventId |-> "", authentic |-> TRUE]
\* new PQueue({ intervalCap: 5, interval: 1000 })
intervalCap == 5
interval == 1000

\* The queue before its first task: no interval is open.  recent holds the
\* instant the latest task started at and those of the tasks started less
\* than `interval` ms before it.
QueueIdle == [intervalCount |-> 0, intervalEnd |-> -1, recent |-> << >>]

\* The interval the queue opened with the first task it started after the
\* previous one is over; the count of starts is then back at 0.
IntervalOver == now > sheetsQueue.intervalEnd

\* A task may start when fewer than intervalCap tasks have started in the
\* open interval; otherwise it waits for the interval to end.
QueueAdmits == IntervalOver \/ sheetsQueue.intervalCount < intervalCap

\* The queue after it has started a task.
QueueStart ==
  [intervalCount |-> IF IntervalOver THEN 1 ELSE sheetsQueue.intervalCount + 1,
   intervalEnd |-> IF IntervalOver THEN now + interval ELSE sheetsQueue.intervalEnd,
   recent |-> SelectSeq(sheetsQueue.recent, LAMBDA t : now - t < interval) \o <<now>>]

Idle ==
  [src |-> "none", pc |-> "idle", id |-> "", type |-> "", record |-> EmptyObj,
   row |-> << >>, timestamp |-> "", headers |-> << >>, fp |-> EmptyObj,
   response |-> "", wrote |-> FALSE, T2 |-> NotADate, tries |-> 0, rowIndex |-> 0]
NothingDone ==
  [src |-> "none", id |-> "", response |-> "", T1 |-> NotADate, T2 |-> NotADate,
   wrote |-> FALSE, pc |-> "idle", at |-> 0, tries |-> 0]
NothingWritten ==
  [id |-> "", T1 |-> NotADate, T2 |-> NotADate, content |-> EmptyObj, fp |-> EmptyObj,
   cached |-> 0]
NoMark == << >>

\* The state the other specifications keep the orchestrator in.
SyncIdle ==
  /\ sheetHeaders = << >>
  /\ sheet = << >>
  /\ db = << >>
  /\ locks = << >>
  /\ lastfingerprint = << >>
  /\ localFingerprints = << >>
  /\ shifted = << >>
  /\ rowindex = << >>
  /\ headerCache = NoCache
  /\ pending = {}
  /\ task = [slot \in Slots |-> Idle]
  /\ lastDone = NothingDone
  /\ edits = 0
  /\ lastWrite = NothingWritten
  /\ sheetsQueue = QueueIdle
  /\ localLocks = << >>
  /\ valid_categories = validCategories
  /\ syncCategoriesPc = "idle"
  /\ eventKeys = << >>
  /\ mark = NoMark
  /\ markWrote = FALSE
  /\ upserts = {}

\* A Redis key with a TTL is there until its expiry instant.
Alive(m, k) == k \in DOMAIN m /\ m[k] > now

\* The event a handler answered, for lastDone: pc is how far it got and at
\* is when it was answered.
Done(t, response) ==
  [src |-> t.src, id |-> t.id, response |-> response,
   T1 |-> IF t.src = "sheets" THEN DateMs(t.timestamp) ELSE NotADate,
   T2 |-> t.T2, wrote |-> t.wrote, pc |-> t.pc, at |-> now, tries |-> t.tries]

\* The row 1 cells and the rows below, as the Sheets API returns them.
AllRows == <<[i \in 1..Len(sheetHeaders) |-> Str(sheetHeaders[i])]>> \o sheet

\* rows.findIndex(r => r[0] === rowId) + 1 over column col; 0: not found.
\* A scan that finds nothing.
ScanColumn_None(rows, col, rowId) == 0

ScanColumn(rows, col, rowId) ==
  LET hits == {n \in 1..Len(rows) : At(rows[n], col) = rowId}
  IN IF hits = {} THEN 0 ELSE SeqMin(hits)

\* values.update at A<n>: rowData replaces the cells from column A on.
UpdateRow(old, rowData) ==
  [i \in 1..(IF Len(old) > Len(rowData) THEN Len(old) ELSE Len(rowData)) |->
     IF i <= Len(rowData) THEN rowData[i] ELSE old[i]]

\* An upsert that leaves the stored columns as they are.
PutAll_Keep(o, given) == o

\* Postgres upsert on conflict (id): the given columns replace the stored.
RECURSIVE PutAll(_, _)
PutAll(o, given) ==
  IF given = << >> THEN o
  ELSE PutAll(Put(o, Head(given)[1], Head(given)[2]), Tail(given))

\* The webhook call Supabase makes for a changed record.
\* A call of the database webhook: it carries the secret and no
\* x-supabase-event-id header.
SupabaseEvent(type, record) ==
  [src |-> "supabase", type |-> type, record |-> record, row |-> << >>,
   timestamp |-> "", eventId |-> "", authentic |-> TRUE]
\* The call onEdit of Code.gs makes for a changed row.
SheetsEvent(row) ==
  [src |-> "sheets", type |-> "", record |-> EmptyObj, row |-> row,
   timestamp |-> toISOString(now), eventId |-> "", authentic |-> TRUE]

Free(slot) == task[slot].pc = "idle"
SetTask(slot, t) == [task EXCEPT ![slot] = t]

\* The lookup left out: no fingerprint is ever found.
StoredFingerprint_None(id) == << >>

\* What redis.get('lastfingerprint:...') || localFingerprints.get(...) gives:
\* <<fingerprint>>, or << >> when neither has one.
StoredFingerprint(id) ==
  IF id \in DOMAIN lastfingerprint THEN <<lastfingerprint[id]>>
  ELSE IF id \in DOMAIN localFingerprints THEN <<localFingerprints[id]>>
  ELSE << >>

FirstFree == SeqMin({slot \in Slots : Free(slot)})
\* The number of events the server is handling.
InFlight == Cardinality({slot \in Slots : ~Free(slot)})

\* createWebhookMiddleware(source) in front of the handler.
\* req.body: the headers of the request are not part of it.
BodyOf(e) == [e EXCEPT !.eventId = "", !.authentic = TRUE]

GuardStep(e) ==
  /\ webhookMiddleware(e.src, NoKey, BodyOf(e))
  /\ now' = now

----------------------------------------------------------------------------
(* supabaseHandler (src/index.js:107-340)                                  *)

\* Lines 336-339: the finally block deletes the lock key, taken or not.
ReleaseLock(id) == MapDel(locks, <<"supabase_processing", id>>)

\* Lines 107-168: the request passes the guard, is validated, and the
\* handler tries to take supabase_processing:<table>:<id>; when the key is
\* there the handler answers and its finally block runs.
SupabaseArrive(e, cap) ==
  /\ e \in pending
  /\ e.src = "supabase"
  /\ InFlight < cap
  /\ GuardStep(e)
  /\ pending' = pending \ {e}
  /\ LET answer == Answer("supabase", NoKey, BodyOf(e))
         rowId == Get(e.record, "id")
         redisLockKey == <<"supabase_processing", ToStr(rowId)>>
         t == [Idle EXCEPT !.src = "supabase", !.id = ToStr(rowId),
                            !.type = e.type, !.record = e.record]
         \* isDuplicateEvent: SET event:<eventId> 'processed' EX 86400 NX
         duplicate == e.eventId # "" /\ Alive(eventKeys, e.eventId)
     IN /\ eventKeys' = IF answer = "next" /\ e.eventId # "" /\ ~duplicate
                        THEN MapSet(eventKeys, e.eventId, now + DAY_MS)
                        ELSE eventKeys
        /\ IF answer # "next"
           THEN /\ lastDone' = Done(t, answer)
                /\ UNCHANGED <<task, locks>>
           ELSE IF duplicate
           THEN /\ lastDone' = Done(t, "Duplicate")
                /\ UNCHANGED <<task, locks>>
           ELSE IF ~Truthy(rowId)
           THEN /\ lastDone' = Done(t, "400 No row ID found")
                /\ UNCHANGED <<task, locks>>
           ELSE IF ~e.authentic
           THEN /\ lastDone' = Done(t, "401 Unauthorized: Invalid Signature or Secret")
                /\ UNCHANGED <<task, locks>>
           ELSE IF Alive(locks, redisLockKey)
           THEN /\ lastDone' = Done(t, "OK (Burst Protected)")
                /\ locks' = ReleaseLock(t.id)
                /\ task' = task
           ELSE /\ task' = SetTask(FirstFree, [t EXCEPT !.pc = "check"])
                /\ locks' = MapSet(locks, redisLockKey, now + SUPABASE_LOCK_TTL_MS)
                /\ lastDone' = lastDone
  /\ UNCHANGED <<sheetHeaders, sheet, db, lastfingerprint, localFingerprints, shifted,
                 rowindex, headerCache, edits, lastWrite, sheetsQueue, localLocks,
                 valid_categories, syncCategoriesPc, mark, markWrote, upserts>>
  /\ UNCHANGED exceptSync

\* The handler answers and its finally block runs.
Finish(slot, t, response) ==
  /\ lastDone' = Done(t, response)
  /\ task' = SetTask(slot, Idle)
  /\ locks' = ReleaseLock(t.id)

\* Lines 170-227: headers, fingerprint, loop check.  calculateFingerprint
\* sorts the array it is given, which is the array the header cache holds.
SupaCheck(slot) ==
  LET t == task[slot]
      cached == headerCache # NoCache /\ now - headerCache[2] < HEADER_CACHE_TTL
      fetched == IF cached THEN headerCache[1] ELSE sheetHeaders
      headers == FpKeys(t.record, fetched)
      incomingFingerprint == calculateFingerprint(t.record, fetched)
      isShifted == Alive(shifted, t.id)
      fromSheets == Get(t.record, "source") = Str("sheets")
  IN /\ t.src = "supabase"
     /\ t.pc = "check"
     /\ IF Len(fetched) = 0
        THEN /\ Finish(slot, t, "500 Internal Server Error")
             /\ UNCHANGED <<headerCache, shifted>>
        ELSE /\ headerCache' = <<headers, IF cached THEN headerCache[2] ELSE now>>
             /\ IF fromSheets /\ StoredFingerprint(t.id) = <<incomingFingerprint>>
                   /\ ~isShifted
                THEN /\ Finish(slot, t, "Skipped loop")
                     /\ shifted' = shifted
                ELSE /\ shifted' = IF fromSheets /\ isShifted
                                   THEN MapDel(shifted, t.id) ELSE shifted
                     /\ IF t.type \in {"INSERT", "UPDATE"}
                        THEN /\ task' = SetTask(slot, [t EXCEPT !.pc = "write", !.tries = 0,
                                                         !.headers = headers,
                                                         !.fp = incomingFingerprint])
                             /\ UNCHANGED <<lastDone, locks>>
                        ELSE Finish(slot, t, "OK")
     /\ UNCHANGED <<sheetHeaders, sheet, db, lastfingerprint, localFingerprints,
                    rowindex, pending, edits, lastWrite, sheetsQueue, localLocks, valid_categories, syncCategoriesPc, eventKeys, mark, markWrote, upserts>>
     /\ UNCHANGED <<guardVars, exceptSync>>

\* The fields sheetsHandler strips from a mapped record (line 459).
fieldsToExclude == <<"created_at", "updated_at", "synced_at", "source">>

RECURSIVE DelKeys(_, _)
DelKeys(o, keys) ==
  IF keys = << >> THEN o ELSE DelKeys(DelKey(o, Head(keys)), Tail(keys))

MaxRows == 3

\* The synced_at cell of a row under the sheet's headers, as an instant.
SyncedAtOf(row) ==
  LET col == FindIndex(sheetHeaders, LAMBDA h : h = "synced_at")
  IN IF col = 0 THEN NotADate ELSE DateMs(ToStr(At(row, col)))

\* Lines 228-339: the task on sheetsQueue writes the row and stores the
\* fingerprint, and the handler answers; onEdit reports the written row.
SupaWrite(slot) ==
  LET t == task[slot]
      rowId == Get(t.record, "id")
      idColIndex == FindIndex(t.headers, IsIdHeader)
      actualIdIndex == IF idColIndex # 0 THEN idColIndex ELSE 1
      rowData == mapSupabaseToSheets(t.record, t.headers)
      rows == AllRows
      cachedIndex == IF t.id \in DOMAIN rowindex THEN rowindex[t.id] ELSE 0
      verified == cachedIndex # 0 /\ cachedIndex <= Len(rows)
                    /\ At(rows[cachedIndex], actualIdIndex) = rowId
      rowIndex == IF verified THEN cachedIndex
                  ELSE ScanColumn(rows, actualIdIndex, rowId)
      target == IF rowIndex # 0 THEN rowIndex ELSE Len(rows) + 1
      old == IF rowIndex # 0 THEN rows[rowIndex] ELSE << >>
      written == UpdateRow(old, rowData)
  IN /\ t.src = "supabase"
     /\ t.pc = "write"
     /\ rowIndex = 0 => Len(sheet) < MaxRows
     /\ QueueAdmits
     /\ sheetsQueue' = QueueStart
     /\ localLocks' = localLocks
     /\ sheetHeaders' = IF target = 1 THEN [i \in 1..Len(written) |-> ToStr(written[i])]
                        ELSE sheetHeaders
     /\ sheet' = IF target = 1 THEN sheet
                 ELSE IF rowIndex # 0 THEN [sheet EXCEPT ![rowIndex - 1] = written]
                 ELSE Append(sheet, written)
     /\ rowindex' = MapSet(rowindex, t.id, target)
     /\ lastfingerprint' = MapSet(lastfingerprint, t.id, t.fp)
     /\ localFingerprints' = MapSet(localFingerprints, t.id, t.fp)
     /\ pending' = IF target # 1 /\ Truthy(At(written, 1))
                   THEN pending \cup {SheetsEvent(written)} ELSE pending
     /\ lastWrite' = [id |-> t.id,
                      T1 |-> DateMs(ToStr(Get(t.record, "synced_at"))),
                      T2 |-> SyncedAtOf(old),
                      content |-> DelKeys(t.record, fieldsToExclude),
                      fp |-> t.fp,
                      cached |-> cachedIndex]
     /\ Finish(slot, [t EXCEPT !.wrote = TRUE], "OK")
     /\ markWrote' = TRUE
     /\ UNCHANGED <<db, shifted, headerCache, edits, valid_categories, syncCategoriesPc, eventKeys, mark, upserts>>
     /\ UNCHANGED <<guardVars, exceptSync>>

----------------------------------------------------------------------------
(* sheetsHandler (src/index.js:346-491)                                    *)

\* The finally block of line 485 deletes <table>:<id>, a key no lock is
\* stored under.
ClearBurstLock(id) == MapDel(locks, <<"", id>>)

\* Lines 346-392: the request passes the guard, the headers are fetched and
\* the handler tries to take sheets_processing:<table>:<id>.
SheetsArrive(e, cap) ==
  /\ e \in pending
  /\ e.src = "sheets"
  /\ InFlight < cap
  /\ GuardStep(e)
  /\ pending' = pending \ {e}
  /\ LET answer == Answer("sheets", NoKey, BodyOf(e))
         headers == sheetHeaders
         idIndex == FindIndex(headers, IsIdHeader)
         rowId == At(e.row, idIndex)
         lockKey == <<"sheets_processing", ToStr(rowId)>>
         t == [Idle EXCEPT !.src = "sheets", !.id = ToStr(rowId), !.row = e.row,
                            !.timestamp = e.timestamp, !.headers = headers]
     IN IF answer # "next"
        THEN /\ lastDone' = Done(t, answer)
             /\ UNCHANGED <<task, locks>>
        ELSE IF idIndex = 0
        THEN /\ lastDone' = Done(t, "500 Internal Server Error")
             /\ UNCHANGED <<task, locks>>
        ELSE IF ~Truthy(rowId)
        THEN /\ lastDone' = Done(t, "400 No row ID found in the detected column")
             /\ UNCHANGED <<task, locks>>
        ELSE IF Alive(locks, lockKey)
        THEN /\ lastDone' = Done(t, "OK (Burst Protected)")
             /\ UNCHANGED <<task, locks>>
        ELSE /\ task' = SetTask(FirstFree, [t EXCEPT !.pc = "check"])
             /\ locks' = MapSet(locks, lockKey, now + SHEETS_LOCK_TTL_MS)
             /\ lastDone' = lastDone
  /\ UNCHANGED <<sheetHeaders, sheet, db, lastfingerprint, localFingerprints, shifted,
                 rowindex, headerCache, edits, lastWrite, sheetsQueue, localLocks, valid_categories, syncCategoriesPc, eventKeys, mark, markWrote, upserts>>
  /\ UNCHANGED exceptSync

\* row.some((v, i) => v && headers[i] && headers[i].toLowerCase()
\*   .includes('id') && !UUID_REGEX.test(v))
isMisaligned(row, headers) ==
  \E i \in 1..Len(row) :
    /\ Truthy(row[i])
    /\ i <= Len(headers) /\ headers[i] # ""
    /\ IncludesId(ToLower(headers[i]))
    /\ ~UUID_REGEX(ToStr(row[i]))

\* A conflict check that also drops an event as old as the stored record.
IsConflict_OrEqual(T1, T2) == T2 # NotADate /\ T1 # NotADate /\ T2 >= T1

\* supabaseSyncedAt > sheetsSyncedAt, false when either is an invalid Date.
IsConflict(T1, T2) == T2 # NotADate /\ T1 # NotADate /\ T2 > T1

\* Lines 394-456: mapping, shift flag, category check, fingerprint
\* comparison and conflict resolution.
SheetsCheck(slot) ==
  LET t == task[slot]
      mapped == mapSheetsToSupabase(t.row, t.headers)
      category == Get(mapped, "category_id")
      incomingRecord ==
        IF Truthy(category) /\ ToStr(category) \notin valid_categories
        THEN Put(mapped, "category_id", Null) ELSE mapped
      incomingFingerprint == calculateFingerprint(incomingRecord, t.headers)
      currentRecord == IF t.id \in DOMAIN db THEN db[t.id] ELSE EmptyObj
      T1 == DateMs(t.timestamp)
      T2 == IF Truthy(Get(currentRecord, "synced_at"))
            THEN DateMs(ToStr(Get(currentRecord, "synced_at"))) ELSE NotADate
  IN /\ t.src = "sheets"
     /\ t.pc = "check"
     /\ shifted' = IF isMisaligned(t.row, t.headers)
                   THEN MapSet(shifted, t.id, now + SHIFTED_TTL_MS) ELSE shifted
     /\ IF StoredFingerprint(t.id) = <<incomingFingerprint>>
        THEN /\ lastDone' = Done(t, "Dropped (Duplicate)")
             /\ task' = SetTask(slot, Idle)
             /\ locks' = ClearBurstLock(t.id)
        ELSE IF IsConflict(T1, T2)
        THEN /\ lastDone' = Done([t EXCEPT !.T2 = T2], "Dropped due to conflict")
             /\ task' = SetTask(slot, Idle)
             /\ locks' = ClearBurstLock(t.id)
        ELSE /\ task' = SetTask(slot, [t EXCEPT !.pc = "write", !.tries = 0, !.T2 = T2,
                                         !.record = incomingRecord,
                                         !.fp = incomingFingerprint])
             /\ UNCHANGED <<lastDone, locks>>
     /\ UNCHANGED <<sheetHeaders, sheet, db, lastfingerprint, localFingerprints,
                    rowindex, headerCache, pending, edits, lastWrite, sheetsQueue, localLocks, valid_categories, syncCategoriesPc, eventKeys, mark, markWrote, upserts>>
     /\ UNCHANGED <<guardVars, exceptSync>>

\* Lines 458-486: the upsert and the stored fingerprint; Supabase reports
\* the changed record.
SheetsWrite(slot) ==
  LET t == task[slot]
      sheetsSyncedAt == DateMs(t.timestamp)
      supabaseRecord ==
        Put(Put(DelKeys(t.record, fieldsToExclude), "source", Str("sheets")),
            "synced_at", Str(toISOString(sheetsSyncedAt)))
      key == Get(supabaseRecord, "id")
      existed == ToStr(key) \in DOMAIN db
      stored == PutAll(IF existed THEN db[ToStr(key)] ELSE EmptyObj, supabaseRecord)
  IN /\ t.src = "sheets"
     /\ t.pc = "write"
     /\ IF ~Truthy(key)
        THEN /\ lastDone' = Done(t, "500 Internal Server Error")
             /\ UNCHANGED <<db, pending, lastfingerprint, localFingerprints, markWrote,
                            upserts>>
        ELSE /\ db' = MapSet(db, ToStr(key), stored)
             /\ pending' = pending \cup
                  {SupabaseEvent(IF existed THEN "UPDATE" ELSE "INSERT", stored)}
             /\ lastfingerprint' = MapSet(lastfingerprint, t.id, t.fp)
             /\ localFingerprints' = MapSet(localFingerprints, t.id, t.fp)
             /\ lastDone' = Done([t EXCEPT !.wrote = TRUE], "OK")
             /\ markWrote' = TRUE
             /\ upserts' = upserts \cup {<<t.id, t.fp>>}
     /\ task' = SetTask(slot, Idle)
     /\ locks' = ClearBurstLock(t.id)
     /\ UNCHANGED <<sheetHeaders, sheet, shifted, rowindex, headerCache, edits,
                    lastWrite, sheetsQueue, localLocks, valid_categories, syncCategoriesPc, eventKeys, mark>>
     /\ UNCHANGED <<guardVars, exceptSync>>

----------------------------------------------------------------------------
(* The two stores' users, and the clock.                                   *)

Ids == {"u1"}
Names == {"Tea", "Chai"}

\* The row a user of the sheet types for an entity.
UserRow(id, name) ==
  [i \in 1..Len(sheetHeaders) |->
     CASE sheetHeaders[i] = "id" -> Str(id)
       [] sheetHeaders[i] = "name" -> Str(name)
       [] sheetHeaders[i] = "is_paid" -> Bool("true")
       [] OTHER -> Str("")]

\* A user edits the name cell of an entity's row, or adds the row; the
\* onEdit trigger of Code.gs posts the row.
SheetEdit(id, name, rounds) ==
  LET idCol == FindIndex(sheetHeaders, IsIdHeader)
      nameCol == FindIndex(sheetHeaders, LAMBDA h : h = "name")
      n == ScanColumn(sheet, idCol, Str(id))
      row == IF n = 0 THEN UserRow(id, name)
             ELSE [sheet[n] EXCEPT ![nameCol] = Str(name)]
  IN /\ edits + 1 \in rounds
     /\ n = 0 => Len(sheet) < MaxRows
     /\ n # 0 => sheet[n][nameCol] # Str(name)
     /\ sheet' = IF n = 0 THEN Append(sheet, row) ELSE [sheet EXCEPT ![n] = row]
     /\ pending' = pending \cup {SheetsEvent(row)}
     /\ edits' = edits + 1
     /\ UNCHANGED <<sheetHeaders, db, locks, lastfingerprint, localFingerprints, shifted,
                    rowindex, headerCache, task, lastDone, lastWrite, sheetsQueue, localLocks, valid_categories, syncCategoriesPc, eventKeys, mark, markWrote, upserts>>
     /\ UNCHANGED <<guardVars, exceptSync>>

\* An application updates the name of a record; the database webhook
\* posts the record.
SupabaseEdit(id, name, rounds) ==
  /\ edits + 1 \in rounds
  /\ id \in DOMAIN db
  /\ Get(db[id], "name") # Str(name)
  /\ db' = [db EXCEPT ![id] = Put(@, "name", Str(name))]
  /\ pending' = pending \cup {SupabaseEvent("UPDATE", Put(db[id], "name", Str(name)))}
  /\ edits' = edits + 1
  /\ UNCHANGED <<sheetHeaders, sheet, locks, lastfingerprint, localFingerprints, shifted,
                 rowindex, headerCache, task, lastDone, lastWrite, sheetsQueue, localLocks, valid_categories, syncCategoriesPc, eventKeys, mark, markWrote, upserts>>
  /\ UNCHANGED <<guardVars, exceptSync>>

\* Time passes.
Tick(d, max) ==
  /\ now + d <= max
  /\ now' = now + d
  /\ UNCHANGED <<idempotencyCache, fingerprintCache, sourceHitCounters, last>>
  /\ UNCHANGED <<syncVars, exceptSync>>

----------------------------------------------------------------------------
(* The pure functions under test: the arguments are drawn by the initial   *)
(* state and one action applies the function.                              *)

None == << >>
PureIdle == fpIn = None /\ fpOut = None /\ mapIn = None /\ mapOut = None

----------------------------------------------------------------------------
(* The requests the middleware is driven with, and their history.          *)

Keys == {"k1"}
Payloads == {1, 2}
MaxReq == 5
\* The instants requests arrive at: two in one five-second bucket, the next
\* bucket's start, and the ends of the idempotency TTLs opened at 0 and 2500.
Instants == {0, 2500, 5000, 600000, 602500}
MaxFlood == 17
\* The instants of a flood: inside and at the end of the loop window opened
\* at 0, and around the ends of the pauses a breaker tripped there sets.
FloodInstants == {0, 30000, 60000, 119999, 120000, 150000}
FloodSource == "supabase"

\* The Maps of a process that has just started.
NoPeer == [idempotencyCache |-> << >>, fingerprintCache |-> << >>,
           sourceHitCounters |-> << >>]

GuardInit0 ==
  /\ now = 0
  /\ idempotencyCache = << >>
  /\ fingerprintCache = << >>
  /\ sourceHitCounters = << >>
  /\ last = [source |-> "", key |-> NoKey, body |-> 0, t |-> 0, answer |-> ""]
  /\ peer = NoPeer

\* hist.n: requests so far.  Per idempotency key: keyFirst, the arrival of
\* its first carrier (-1: none yet); keySeen, keyIdem, keyNext: its carriers
\* arrived within IDEMPOTENCY_TTL_MS of the first, those of them answered
\* "Idempotent OK", and those passed on.  Per source and body: passPrev,
\* passLast, the arrivals of the last two requests without a key that were
\* passed on.  Per source: uT0, the arrival of its first request that was no
\* duplicate; uIn, uPass, u429: its non-duplicate requests arrived within
\* LOOP_WINDOW_MS of uT0, those of them passed on, and those answered 429;
\* uTrip: when its breaker tripped first; uEarly: a request was passed on
\* less than LOOP_PAUSE_DURATION_MS after uTrip; recent: the arrivals of its
\* requests passed on less than LOOP_WINDOW_MS before its latest request.
HistInit ==
  hist = [n |-> 0,
          keyFirst |-> [k \in Keys |-> -1],
          keySeen |-> [k \in Keys |-> 0],
          keyIdem |-> [k \in Keys |-> 0],
          keyNext |-> [k \in Keys |-> 0],
          passPrev |-> [x \in Sources \X Payloads |-> -1],
          passLast |-> [x \in Sources \X Payloads |-> -1],
          uT0 |-> [x \in Sources |-> -1],
          uIn |-> [x \in Sources |-> 0],
          uPass |-> [x \in Sources |-> 0],
          u429 |-> [x \in Sources |-> 0],
          uTrip |-> [x \in Sources |-> -1],
          uEarly |-> [x \in Sources |-> FALSE],
          recent |-> [x \in Sources |-> << >>]]

GuardIdle == GuardInit0 /\ HistInit

Is429(answer) == answer \in {"429 Loop Breaker Pause", "429 Loop Breaker Triggered"}

HistAfter(source, key, body, answer) ==
  LET first == key # NoKey /\ hist.keyFirst[key] = -1
      inTtl == key # NoKey /\ ~first /\ now <= hist.keyFirst[key] + IDEMPOTENCY_TTL_MS
      counted == first \/ inTtl
      plain == key = NoKey /\ body \in Payloads /\ answer = "next"
      unique == answer \notin {"Idempotent OK", "Duplicate Suppressed"}
      t0 == IF hist.uT0[source] = -1 THEN now ELSE hist.uT0[source]
      inWin == unique /\ now - t0 <= LOOP_WINDOW_MS
  IN [hist EXCEPT
        !.n = @ + 1,
        !.keyFirst = IF first THEN [@ EXCEPT ![key] = now] ELSE @,
        !.keySeen = IF counted THEN [@ EXCEPT ![key] = @ + 1] ELSE @,
        !.keyIdem = IF counted /\ answer = "Idempotent OK"
                    THEN [@ EXCEPT ![key] = @ + 1] ELSE @,
        !.keyNext = IF counted /\ answer = "next"
                    THEN [@ EXCEPT ![key] = @ + 1] ELSE @,
        !.passPrev = IF plain THEN [@ EXCEPT ![<<source, body>>] = hist.passLast[<<source, body>>]]
                     ELSE @,
        !.passLast = IF plain THEN [@ EXCEPT ![<<source, body>>] = now] ELSE @,
        !.uT0 = IF unique THEN [@ EXCEPT ![source] = t0] ELSE @,
        !.uIn = IF inWin THEN [@ EXCEPT ![source] = @ + 1] ELSE @,
        !.uPass = IF inWin /\ answer = "next" THEN [@ EXCEPT ![source] = @ + 1] ELSE @,
        !.u429 = IF inWin /\ Is429(answer) THEN [@ EXCEPT ![source] = @ + 1] ELSE @,
        !.uTrip = IF answer = "429 Loop Breaker Triggered" /\ hist.uTrip[source] = -1
                  THEN [@ EXCEPT ![source] = now] ELSE @,
        !.uEarly = IF answer = "next" /\ hist.uTrip[source] # -1
                       /\ now < hist.uTrip[source] + LOOP_PAUSE_DURATION_MS
                   THEN [@ EXCEPT ![source] = TRUE] ELSE @,
        !.recent = [@ EXCEPT ![source] =
                      SelectSeq(@, LAMBDA t : now - t < LOOP_WINDOW_MS)
                        \o (IF answer = "next" THEN <<now>> ELSE << >>)]]

\* One request to a webhook route.
GuardRequest(source, key, body) ==
  /\ hist.n < MaxReq
  /\ webhookMiddleware(source, key, body)
  /\ hist' = HistAfter(source, key, body, Answer(source, key, body))
  /\ now' = now
  /\ UNCHANGED exceptGuard

\* Time passes.
GuardTick(t) ==
  /\ t > now
  /\ now' = t
  /\ UNCHANGED <<idempotencyCache, fingerprintCache, sourceHitCounters, last, hist>>
  /\ UNCHANGED exceptGuard

GuardInit == GuardIdle /\ PureIdle /\ RegIdle /\ SyncIdle

RegInit == RegIdle /\ PureIdle /\ GuardIdle /\ SyncIdle

RegNext ==
  \/ \E eventType \in EventTypes, handler \in Handlers : register(eventType, handler)
  \/ \E eventType \in EventTypes : dispatch(eventType)

SpecRegistry == RegInit /\ [][RegNext]_vars

GuardNext ==
  \/ \E source \in Sources, key \in Keys \cup {NoKey}, body \in Payloads :
       GuardRequest(source, key, body)
  \/ \E t \in Instants : GuardTick(t)

SpecGuard == GuardInit /\ [][GuardNext]_vars

\* A request with a body never sent before (runScenario4's Math.random id).
FloodRequest(source) ==
  /\ hist.n < MaxFlood
  /\ webhookMiddleware(source, NoKey, Cardinality(Payloads) + hist.n + 1)
  /\ hist' = HistAfter(source, NoKey, Cardinality(Payloads) + hist.n + 1,
                       Answer(source, NoKey, Cardinality(Payloads) + hist.n + 1))
  /\ now' = now
  /\ UNCHANGED exceptGuard

FloodTick(t) ==
  /\ t > now
  /\ now' = t
  /\ UNCHANGED <<idempotencyCache, fingerprintCache, sourceHitCounters, last, hist>>
  /\ UNCHANGED exceptGuard

FloodNext ==
  \/ FloodRequest(FloodSource)
  \/ \E t \in FloodInstants : FloodTick(t)

SpecFlood == GuardInit /\ [][FloodNext]_vars

\* A delivery made once more: the body of the last request, with or without
\* an idempotency key, unless that request was a repetition itself.
FloodReplay(source, key) ==
  /\ hist.n > 0
  /\ hist.n < MaxFlood
  /\ last.source = source
  /\ last.answer \notin {"Idempotent OK", "Duplicate Suppressed"}
  /\ webhookMiddleware(source, key, last.body)
  /\ hist' = HistAfter(source, key, last.body, Answer(source, key, last.body))
  /\ now' = now
  /\ UNCHANGED exceptGuard

\* A flood and a moment half a minute into the pause it sets.
PauseInstants == {0, 30000}

PauseNext ==
  \/ FloodRequest(FloodSource)
  \/ \E key \in Keys \cup {NoKey} : FloodReplay(FloodSource, key)
  \/ \E t \in PauseInstants : FloodTick(t)

SpecPause == GuardInit /\ [][PauseNext]_vars

\* Two server processes behind one address.  The three Maps are module
\* state of webhook-middleware, one set per process: the variables hold
\* those of the process the next request goes to, peer those of the other.
Route ==
  /\ idempotencyCache' = peer.idempotencyCache
  /\ fingerprintCache' = peer.fingerprintCache
  /\ sourceHitCounters' = peer.sourceHitCounters
  /\ peer' = [idempotencyCache |-> idempotencyCache,
              fingerprintCache |-> fingerprintCache,
              sourceHitCounters |-> sourceHitCounters]
  /\ UNCHANGED <<now, last, hist, pureVars, regVars, syncVars>>

ScaleInstants == {2500}

ScaleNext ==
  \/ \E key \in Keys \cup {NoKey}, body \in Payloads : GuardRequest(FloodSource, key, body)
  \/ \E t \in ScaleInstants : GuardTick(t)
  \/ Route

SpecScale == GuardInit /\ [][ScaleNext]_vars

----------------------------------------------------------------------------
(* The orchestrator's runs.                                                *)

MaxNow == 10000
SyncTicks == {5000}
SyncHeaders == <<"id", "name", "synced_at">>

FreshGuard == GuardInit0 /\ HistInit

\* The server has just started; the table and the sheet hold one entity,
\* in step with each other.
Init ==
  /\ FreshGuard /\ PureIdle /\ RegIdle
  /\ sheetHeaders = SyncHeaders
  /\ sheet = << <<Str("u1"), Str("Tea"), Str(toISOString(0))>> >>
  /\ db = [id \in {"u1"} |->
             << <<"id", Str("u1")>>, <<"name", Str("Tea")>>,
                <<"synced_at", Str(toISOString(0))>>, <<"source", Str("supabase")>> >>]
  /\ locks = << >>
  /\ lastfingerprint = << >>
  /\ localFingerprints = << >>
  /\ shifted = << >>
  /\ rowindex = << >>
  /\ headerCache = NoCache
  /\ pending = {}
  /\ task = [slot \in Slots |-> Idle]
  /\ lastDone = NothingDone
  /\ edits = 0
  /\ lastWrite = NothingWritten
  /\ sheetsQueue = QueueIdle
  /\ localLocks = << >>
  /\ valid_categories = validCategories
  /\ syncCategoriesPc = "idle"
  /\ eventKeys = << >>
  /\ mark = NoMark
  /\ markWrote = FALSE
  /\ upserts = {}

\* The edits of a run are numbered.
EditRounds == {1, 2}
SerialRounds == {1, 2, 3}

\* The server handles up to cap events at a time.
Handle(cap) ==
  \/ \E e \in pending : SupabaseArrive(e, cap)
  \/ \E e \in pending : SheetsArrive(e, cap)
  \/ \E slot \in Slots : SupaCheck(slot)
  \/ \E slot \in Slots : SupaWrite(slot)
  \/ \E slot \in Slots : SheetsCheck(slot)
  \/ \E slot \in Slots : SheetsWrite(slot)

Next ==
  \/ Handle(Cardinality(Slots))
  \/ \E id \in Ids, name \in Names : SheetEdit(id, name, EditRounds)
  \/ \E id \in Ids, name \in Names : SupabaseEdit(id, name, EditRounds)
  \/ \E d \in SyncTicks : Tick(d, MaxNow)

\* The same server when each event is answered before the next arrives.
SerialNext ==
  \/ Handle(1)
  \/ \E id \in Ids, name \in Names : SheetEdit(id, name, SerialRounds)
  \/ \E id \in Ids, name \in Names : SupabaseEdit(id, name, SerialRounds)
  \/ \E d \in SyncTicks : Tick(d, MaxNow)

SpecSerial == Init /\ [][SerialNext]_vars

----------------------------------------------------------------------------
(* Sheets whose first row is not what the handlers expect, and a clock     *)
(* that stops between the drain delay and the expiry of the burst lock.    *)

\* Line 485: setTimeout(..., 2000) in the finally block of sheetsHandler.
DRAIN_DELAY_MS == 2000

EdgeMaxNow == 5000
EdgeTicks == {2500}
EdgeRounds == {1, 2}

\* A header row and the one data row under it: the usual sheet, a sheet
\* without an id column, a sheet whose row has a blank id cell, and a sheet
\* whose first row is blank (values.get answers without `values`).
EdgeSheets ==
  { <<SyncHeaders, <<Str("u1"), Str("Tea"), Str(toISOString(0))>> >>,
    << <<"name", "synced_at">>, <<Str("Tea"), Str(toISOString(0))>> >>,
    << <<"name", "id", "synced_at">>, <<Str("Tea"), Str(""), Str(toISOString(0))>> >>,
    << << >>, <<Str("u1"), Str("Tea"), Str(toISOString(0))>> >> }

EdgeInit ==
  /\ FreshGuard /\ PureIdle /\ RegIdle
  /\ \E hr \in EdgeSheets : sheetHeaders = hr[1] /\ sheet = <<hr[2]>>
  /\ db = [id \in {"u1"} |->
             << <<"id", Str("u1")>>, <<"name", Str("Tea")>>,
                <<"synced_at", Str(toISOString(0))>>, <<"source", Str("supabase")>> >>]
  /\ locks = << >>
  /\ lastfingerprint = << >>
  /\ localFingerprints = << >>
  /\ shifted = << >>
  /\ rowindex = << >>
  /\ headerCache = NoCache
  /\ pending = {}
  /\ task = [slot \in Slots |-> Idle]
  /\ lastDone = NothingDone
  /\ edits = 0
  /\ lastWrite = NothingWritten
  /\ sheetsQueue = QueueIdle
  /\ localLocks = << >>
  /\ valid_categories = validCategories
  /\ syncCategoriesPc = "idle"
  /\ eventKeys = << >>
  /\ mark = NoMark
  /\ markWrote = FALSE
  /\ upserts = {}

\* A user changes the cell of the first data row that holds the name; onEdit
\* of Code.gs posts the row unless its first cell is empty (line 34).
EdgeSheetEdit(name, rounds) ==
  LET cols == {i \in 1..Len(sheet[1]) : \E n \in Names : sheet[1][i] = Str(n)}
      col == SeqMin(cols)
      row == [sheet[1] EXCEPT ![col] = Str(name)]
  IN /\ edits + 1 \in rounds
     /\ cols # {}
     /\ sheet[1][col] # Str(name)
     /\ sheet' = [sheet EXCEPT ![1] = row]
     /\ pending' = IF Truthy(row[1]) THEN pending \cup {SheetsEvent(row)} ELSE pending
     /\ edits' = edits + 1
     /\ UNCHANGED <<sheetHeaders, db, locks, lastfingerprint, localFingerprints, shifted,
                    rowindex, headerCache, task, lastDone, lastWrite, sheetsQueue, localLocks, valid_categories, syncCategoriesPc, eventKeys, mark, markWrote, upserts>>
     /\ UNCHANGED <<guardVars, exceptSync>>

EdgeNext ==
  \/ Handle(1)
  \/ \E name \in Names : EdgeSheetEdit(name, EdgeRounds)
  \/ \E id \in Ids, name \in Names : SupabaseEdit(id, name, EdgeRounds)
  \/ \E d \in EdgeTicks : Tick(d, EdgeMaxNow)

SpecEdge == EdgeInit /\ [][EdgeNext]_vars

----------------------------------------------------------------------------
(* A day in the life of one process: the fingerprints stored in the shared *)
(* cache expire, the Map localFingerprints of the process does not.        *)

DayRounds == {1, 2}

\* 86400 s pass while nothing is in flight: every lastfingerprint key, set
\* with EX 3600 or EX 86400, has expired; the other keys expire by the clock.
DayPasses ==
  /\ pending = {} /\ \A slot \in Slots : Free(slot)
  /\ now < DAY_MS
  /\ now' = now + DAY_MS
  /\ lastfingerprint' = << >>
  /\ UNCHANGED <<idempotencyCache, fingerprintCache, sourceHitCounters, last>>
  /\ UNCHANGED <<sheetHeaders, sheet, db, locks, localFingerprints, shifted, rowindex,
                 headerCache, pending, task, lastDone, edits, lastWrite, sheetsQueue, localLocks, valid_categories, syncCategoriesPc, eventKeys, mark, markWrote,
                 upserts>>
  /\ UNCHANGED exceptSync

\* A user re-enters the synced_at cell of an entity's row; onEdit of Code.gs
\* posts the row, whose business content is what it was.
SheetTouch(id, rounds) ==
  LET idCol == FindIndex(sheetHeaders, IsIdHeader)
      atCol == FindIndex(sheetHeaders, LAMBDA h : h = "synced_at")
      n == ScanColumn(sheet, idCol, Str(id))
      row == [sheet[n] EXCEPT ![atCol] = Str(toISOString(now))]
  IN /\ edits + 1 \in rounds
     /\ n # 0 /\ atCol # 0
     /\ sheet[n][atCol] # Str(toISOString(now))
     /\ sheet' = [sheet EXCEPT ![n] = row]
     /\ pending' = pending \cup {SheetsEvent(row)}
     /\ edits' = edits + 1
     /\ UNCHANGED <<sheetHeaders, db, locks, lastfingerprint, localFingerprints, shifted,
                    rowindex, headerCache, task, lastDone, lastWrite, sheetsQueue, localLocks, valid_categories, syncCategoriesPc, eventKeys, mark, markWrote, upserts>>
     /\ UNCHANGED <<guardVars, exceptSync>>

DayNext ==
  \/ Handle(1)
  \/ \E id \in Ids, name \in Names : SheetEdit(id, name, DayRounds)
  \/ \E id \in Ids, name \in Names : SupabaseEdit(id, name, DayRounds)
  \/ \E id \in Ids : SheetTouch(id, DayRounds)
  \/ DayPasses

SpecDay == Init /\ [][DayNext]_vars

----------------------------------------------------------------------------
(* External calls that fail.  pRetry(fn, {retries: 3}) calls fn again      *)
(* after a throw, three times at most, and then throws itself; the         *)
(* handler's catch block answers 500.                                      *)

RETRIES == 3

\* The attempt counter that starts again before it reaches the limit.
Attempt_Wrap(n) == (n + 1) % RETRIES

\* The number of failed attempts after one more.
Attempt(n) == n + 1

\* pRetry gives up: the retries are used up.
Exhausted(t) == t.tries >= RETRIES

\* The call the handler is waiting for is one pRetry wraps: the header fetch
\* of supabaseHandler when the cache is stale (line 177), the calls of the
\* queue task (lines 247-307) and the upsert (line 466).
InCall(t) ==
  \/ t.pc = "write"
  \/ /\ t.src = "supabase" /\ t.pc = "check"
     /\ ~(headerCache # NoCache /\ now - headerCache[2] < HEADER_CACHE_TTL)

\* An attempt of the call fails.  A throw is retried until the retries are
\* used up, then the catch block answers 500; the upsert may also resolve
\* with an error object, which line 473 throws past pRetry.
CallFails(slot) ==
  LET t == task[slot]
  IN /\ InCall(t)
     /\ \/ /\ ~Exhausted(t)
           /\ task' = SetTask(slot, [t EXCEPT !.tries = Attempt(t.tries)])
           /\ UNCHANGED <<lastDone, locks>>
        \/ /\ Exhausted(t) \/ (t.src = "sheets" /\ t.tries = 0)
           /\ IF t.src = "supabase"
              THEN Finish(slot, t, "500 Internal Server Error")
              ELSE /\ lastDone' = Done(t, "500 Internal Server Error")
                   /\ task' = SetTask(slot, Idle)
                   /\ locks' = ClearBurstLock(t.id)
     /\ UNCHANGED <<sheetHeaders, sheet, db, lastfingerprint, localFingerprints, shifted,
                    rowindex, headerCache, pending, edits, lastWrite, sheetsQueue, localLocks, valid_categories, syncCategoriesPc, eventKeys, mark, markWrote,
                    upserts>>
     /\ UNCHANGED <<guardVars, exceptSync>>

RetryRounds == {1}

\* What the event loop does for the event in a slot.
Step(slot) ==
  \/ SupaCheck(slot) \/ SupaWrite(slot) \/ SheetsCheck(slot) \/ SheetsWrite(slot)
  \/ CallFails(slot)

RetryNext ==
  \/ \E e \in pending : SupabaseArrive(e, Cardinality(Slots))
  \/ \E e \in pending : SheetsArrive(e, Cardinality(Slots))
  \/ \E slot \in Slots : Step(slot)
  \/ \E id \in Ids, name \in Names : SheetEdit(id, name, RetryRounds)
  \/ \E id \in Ids, name \in Names : SupabaseEdit(id, name, RetryRounds)
  \/ \E d \in SyncTicks : Tick(d, MaxNow)

SpecRetry == Init /\ [][RetryNext]_vars

----------------------------------------------------------------------------
(* Rows that move: a user inserts a row above the data or deletes a row,   *)
(* which onEdit does not report, and the positions stored under rowindex   *)
(* go stale.                                                               *)

RowsRounds == {1, 2, 3}

\* The rows values.get returns: the empty rows at the end are left out.
RECURSIVE TrimRows(_)
TrimRows(rows) ==
  IF rows # << >> /\ rows[Len(rows)] = << >>
  THEN TrimRows(SubSeq(rows, 1, Len(rows) - 1)) ELSE rows

InsertRowAbove(rounds) ==
  /\ edits + 1 \in rounds
  /\ sheet # << >> /\ Len(sheet) < MaxRows
  /\ sheet' = << << >> >> \o sheet
  /\ edits' = edits + 1
  /\ UNCHANGED <<sheetHeaders, db, locks, lastfingerprint, localFingerprints, shifted,
                 rowindex, headerCache, pending, task, lastDone, lastWrite, sheetsQueue, localLocks, valid_categories, syncCategoriesPc, eventKeys, mark,
                 markWrote, upserts>>
  /\ UNCHANGED <<guardVars, exceptSync>>

DeleteRow(n, rounds) ==
  /\ edits + 1 \in rounds
  /\ n \in 1..Len(sheet)
  /\ sheet' = TrimRows(SubSeq(sheet, 1, n - 1) \o SubSeq(sheet, n + 1, Len(sheet)))
  /\ edits' = edits + 1
  /\ UNCHANGED <<sheetHeaders, db, locks, lastfingerprint, localFingerprints, shifted,
                 rowindex, headerCache, pending, task, lastDone, lastWrite, sheetsQueue, localLocks, valid_categories, syncCategoriesPc, eventKeys, mark,
                 markWrote, upserts>>
  /\ UNCHANGED <<guardVars, exceptSync>>

RowsNext ==
  \/ Handle(1)
  \/ \E id \in Ids, name \in Names : SheetEdit(id, name, RowsRounds)
  \/ \E id \in Ids, name \in Names : SupabaseEdit(id, name, RowsRounds)
  \/ InsertRowAbove(RowsRounds)
  \/ \E n \in 1..MaxRows : DeleteRow(n, RowsRounds)

SpecRows == Init /\ [][RowsNext]_vars

----------------------------------------------------------------------------
(* One edit and its echoes.  The state is compared up to a shift of the    *)
(* clock: every instant is taken relative to now, what has expired is      *)
(* left out, and a hit counter whose window is over counts as none.        *)

RelValue(v) ==
  IF v.t = "str" /\ v.s \in IsoDateStrings
  THEN V("date", ToString(DateMs(v.s) - now)) ELSE v
RelObj(o) == [i \in 1..Len(o) |-> <<o[i][1], RelValue(o[i][2])>>]
RelRow(r) == [i \in 1..Len(r) |-> RelValue(r[i])]
RelTtl(m) == [k \in {x \in DOMAIN m : m[x] > now} |-> m[k] - now]
RelEvent(e) ==
  [src |-> e.src, type |-> e.type, record |-> RelObj(e.record),
   row |-> RelRow(e.row), timestamp |-> RelValue(Str(e.timestamp)),
   eventId |-> e.eventId, authentic |-> e.authentic]
RelCounter(source) ==
  LET c == CounterOf(source)
  IN IF c.pauseUntil > now
     THEN [hits |-> c.hits, age |-> now - c.firstHitTime, pause |-> c.pauseUntil - now]
     ELSE IF c.hits = 0 \/ WindowElapsed(source)
     THEN [hits |-> 0, age |-> 0, pause |-> 0]
     ELSE [hits |-> c.hits, age |-> now - c.firstHitTime, pause |-> 0]
RelHeaderCache ==
  IF headerCache = NoCache \/ ~(now - headerCache[2] < HEADER_CACHE_TTL)
  THEN NoCache ELSE <<headerCache[1], now - headerCache[2]>>

Rel ==
  [sheetHeaders |-> sheetHeaders,
   sheet |-> [i \in 1..Len(sheet) |-> RelRow(sheet[i])],
   db |-> [id \in DOMAIN db |-> RelObj(db[id])],
   locks |-> RelTtl(locks),
   shifted |-> RelTtl(shifted),
   lastfingerprint |-> lastfingerprint,
   localFingerprints |-> localFingerprints,
   rowindex |-> rowindex,
   headerCache |-> RelHeaderCache,
   sheetsQueue |-> IF IntervalOver THEN << >>
                   ELSE <<sheetsQueue.intervalCount, sheetsQueue.intervalEnd - now>>,
   pending |-> {RelEvent(e) : e \in pending},
   task |-> task,
   idempotencyCache |-> RelTtl(idempotencyCache),
   fingerprintCache |-> RelTtl(cleanupCache(fingerprintCache)),
   sourceHitCounters |-> [source \in Sources |-> RelCounter(source)]]

LoopRounds == {1}
LoopTicks == {35000}
LoopHeaders == <<"id", "name", "is_paid">>

\* The server has just started; the sheet has its header row and the
\* table is empty.
LoopInit ==
  /\ FreshGuard /\ PureIdle /\ RegIdle
  /\ sheetHeaders = LoopHeaders
  /\ sheet = << >>
  /\ db = << >>
  /\ locks = << >>
  /\ lastfingerprint = << >>
  /\ localFingerprints = << >>
  /\ shifted = << >>
  /\ rowindex = << >>
  /\ headerCache = NoCache
  /\ pending = {}
  /\ task = [slot \in Slots |-> Idle]
  /\ lastDone = NothingDone
  /\ edits = 0
  /\ lastWrite = NothingWritten
  /\ sheetsQueue = QueueIdle
  /\ localLocks = << >>
  /\ valid_categories = validCategories
  /\ syncCategoriesPc = "idle"
  /\ eventKeys = << >>
  /\ mark = NoMark
  /\ markWrote = FALSE
  /\ upserts = {}

\* The state is remembered at a moment when no event is being handled and
\* one is waiting; markWrote then tells whether a store was written since.
LoopMark ==
  /\ mark = NoMark
  /\ pending # {}
  /\ \A slot \in Slots : Free(slot)
  /\ mark' = Rel
  /\ markWrote' = FALSE
  /\ upserts' = upserts
  /\ UNCHANGED <<sheetHeaders, sheet, db, locks, lastfingerprint, localFingerprints,
                 shifted, rowindex, headerCache, pending, task, lastDone, edits,
                 lastWrite, sheetsQueue, localLocks, valid_categories,
                 syncCategoriesPc, eventKeys>>
  /\ UNCHANGED <<guardVars, exceptSync>>

LoopNext ==
  \/ Handle(Cardinality(Slots))
  \/ \E id \in Ids, name \in Names : SheetEdit(id, name, LoopRounds)
  \/ \E d \in LoopTicks : Tick(d, MaxLoopNow)
  \/ LoopMark

SpecLoop == LoopInit /\ [][LoopNext]_vars

Spec == Init /\ [][Next]_vars

----------------------------------------------------------------------------
(* The inputs of the pure functions. *)

MaxFields == 3

FpFields ==
  { <<"name", Str("Tea")>>, <<"name", Null>>,
    <<"price", Num("99")>>, <<"price", Str("99")>>,
    <<"is_veg", Bool("true")>>,
    <<"source", Str("sheets")>>, <<"source", Str("supabase")>> }

DistinctKeys(o) == \A i, j \in 1..Len(o) : i # j => o[i][1] # o[j][1]

FpRecords ==
  UNION { {o \in [1..n -> FpFields] : DistinctKeys(o)} : n \in 1..MaxFields }

FpKeyLists == {NoKeys, <<"price", "name", "is_veg", "source">>}

FpInit ==
  /\ fpIn \in FpRecords \X FpRecords \X FpKeyLists
  /\ fpOut = None
  /\ mapIn = None /\ mapOut = None
  /\ GuardIdle
  /\ RegIdle
  /\ SyncIdle

FpApply ==
  /\ fpOut = None
  /\ fpOut' = <<calculateFingerprint(fpIn[1], fpIn[3]),
               calculateFingerprint(fpIn[2], fpIn[3])>>
  /\ UNCHANGED <<fpIn, mapIn, mapOut>>
  /\ UNCHANGED exceptPure

SpecFp == FpInit /\ [][FpApply]_vars

MapCells ==
  { Str(""), Str("u1"), Str("c1"), Str("Tea"), Str("99"), Str("99.0"),
    Str("true"), Str("2024-01-01T10:00:00Z") }

MapHeaderLists ==
  { <<"id", "name", "price">>, <<"id", "description", "is_veg">>,
    <<"id", "category_id", "synced_at">> }

MapInit ==
  /\ mapIn \in UNION { [1..Len(h) -> MapCells] \X {h} : h \in MapHeaderLists }
  /\ mapOut = None
  /\ fpIn = None /\ fpOut = None
  /\ GuardIdle
  /\ RegIdle
  /\ SyncIdle

MapApply ==
  /\ mapOut = None
  /\ mapOut' = <<mapSheetsToSupabase(mapIn[1], mapIn[2]),
                 mapSupabaseToSheets(
                   mapSheetsToSupabase(mapIn[1], mapIn[2]), mapIn[2])>>
  /\ UNCHANGED <<mapIn, fpIn, fpOut>>
  /\ UNCHANGED exceptPure

SpecMap == MapInit /\ [][MapApply]_vars

----------------------------------------------------------------------------
(* Properties of the pure functions.                                       *)

KeySet(o) == {o[i][1] : i \in 1..Len(o)}
SeqRange(q) == {q[i] : i \in 1..Len(q)}
\* The canonical form of a business value: null stays null, a missing field
\* stays missing, any other value is its string form.
Canon(v) == IF v \in {Null, Undef} THEN v ELSE Str(ToStr(v))
BusinessKeys(a, b, keys) ==
  (IF keys = NoKeys THEN KeySet(a) \cup KeySet(b) ELSE SeqRange(keys)) \ metadataFields
AgreeOnBusiness(a, b, keys) ==
  \A k \in BusinessKeys(a, b, keys) : Canon(Get(a, k)) = Canon(Get(b, k))

\* C9: calculateFingerprint gives the same fingerprint to any two records
\* that agree on every business field after canonical string coercion,
\* whatever their key order, the number-or-string type of equal values and
\* their metadata fields (synced_at, created_at, updated_at, source).
C9_FingerprintDeterminism ==
  fpOut # None =>
    (AgreeOnBusiness(fpIn[1], fpIn[2], fpIn[3]) => fpOut[1] = fpOut[2])

\* Two records in different key order, with 99 against "99" and a different
\* origin tag, hashed to the same fingerprint.
C9_Witness ==
  /\ fpOut # None
  /\ AgreeOnBusiness(fpIn[1], fpIn[2], fpIn[3])
  /\ Len(fpIn[1]) = 3 /\ Len(fpIn[2]) = 3
  /\ ObjKeys(fpIn[1]) # ObjKeys(fpIn[2])
  /\ Get(fpIn[1], "price") = Num("99") /\ Get(fpIn[2], "price") = Str("99")
  /\ Get(fpIn[1], "source") = Str("sheets") /\ Get(fpIn[2], "source") = Str("supabase")
  /\ fpOut[1] = fpOut[2]

\* A cell that satisfies the type constraint of its field (an empty cell does).
CellFits(key, c) ==
  \/ c.s = ""
  \/ CASE key = "id" \/ EndsWithId(key) -> UUID_REGEX(c.s)
       [] EndsWithAt(key) -> ISO_DATE_REGEX(c.s)
       [] key \in numericFields -> NumericText(c.s) # "NaN"
       [] StartsWithIs(key) -> ToLower(c.s) \in {"true", "false"}
       [] key \in {"name", "title"} ->
            ~UUID_REGEX(c.s) /\ ~DateParses(c.s) /\ ToLower(c.s) \notin {"true", "false", "null"}
       [] OTHER -> TRUE
RowFits(row, headers) ==
  \A i \in 1..Len(headers) : CellFits(KeyOf(headers[i]), row[i])
\* Two rows with the same cell texts (99 and "99" are the same cell).
SameCells(r1, r2) ==
  Len(r1) = Len(r2) /\ \A i \in 1..Len(r1) : ToStr(r1[i]) = ToStr(r2[i])

\* C10: for every header list and every row whose cells satisfy the field
\* type constraints, empty cells included,
\* mapSupabaseToSheets(mapSheetsToSupabase(row, headers), headers) = row.
C10_RoundTrip ==
  mapOut # None =>
    (RowFits(mapIn[1], mapIn[2]) => SameCells(mapOut[2], mapIn[1]))

----------------------------------------------------------------------------
(* Properties of the Ingress Guard.                                        *)

Min(a, b) == IF a < b THEN a ELSE b

\* C3: of the requests that carry one idempotency key and arrive within
\* IDEMPOTENCY_TTL_MS of the first of them, only the first gets past the
\* idempotency check; every later one is answered "Idempotent OK", whatever
\* its body, and none of the later ones is passed on to the handler.
C3_IdempotentReplay ==
  \A k \in Keys :
    /\ hist.keySeen[k] >= 1 =>
         /\ hist.keyIdem[k] = hist.keySeen[k] - 1
         /\ hist.keyNext[k] <= 1
    /\ (/\ hist.keySeen[k] >= 2
        /\ last.key = k
        /\ last.t <= hist.keyFirst[k] + IDEMPOTENCY_TTL_MS)
         => last.answer = "Idempotent OK"

\* Five carriers of one key, the fifth at the very end of the TTL: one was
\* passed on and four were suppressed.
C3_Witness ==
  /\ hist.keySeen["k1"] = 5
  /\ hist.keyIdem["k1"] = 4
  /\ hist.keyNext["k1"] = 1
  /\ last.key = "k1"
  /\ last.t = hist.keyFirst["k1"] + IDEMPOTENCY_TTL_MS
  /\ last.answer = "Idempotent OK"

\* C4: two requests without an idempotency key, from one source and with
\* the same body, that arrive less than five seconds apart are never both
\* passed on by the guard.
C4_BurstDedup ==
  \A x \in Sources \X Payloads :
    hist.passPrev[x] # -1 =>
      hist.passLast[x] - hist.passPrev[x] >= FIVE_SECONDS_MS

\* C5: of the non-duplicate requests of one source that arrive within
\* LOOP_WINDOW_MS of its first, the first LOOP_THRESHOLD are passed on and
\* all the others are answered 429; and once the breaker has tripped no
\* request of that source is passed on before LOOP_PAUSE_DURATION_MS is over.
C5_LoopBreaker ==
  \A s \in Sources :
    /\ hist.uPass[s] = Min(hist.uIn[s], LOOP_THRESHOLD)
    /\ hist.u429[s] = hist.uIn[s] - hist.uPass[s]
    /\ ~hist.uEarly[s]

\* Fifteen requests in the window, ten passed on and five answered 429, and
\* then a request passed on once the pause is over.
C5_Witness ==
  /\ hist.uIn[FloodSource] = 15
  /\ hist.uPass[FloodSource] = 10
  /\ hist.u429[FloodSource] = 5
  /\ hist.uTrip[FloodSource] # -1
  /\ last.answer = "next"
  /\ last.t >= hist.uTrip[FloodSource] + LOOP_PAUSE_DURATION_MS

----------------------------------------------------------------------------
(* Properties of the registry.                                             *)

\* C6: register(eventType, handler) for an event type that already has a
\* handler throws the conflict error and leaves the first handler bound:
\* every event type is bound to, and dispatches to, the handler of its first
\* register call that returned.
C6_SingleSubscriber ==
  /\ \A e \in EventTypes :
       IF firstReg[e] = NoHandler THEN e \notin DOMAIN handlers
       ELSE e \in DOMAIN handlers /\ handlers[e] = firstReg[e]
  /\ regLast.op = "register" => (regLast.out = "Conflict" <=> regLast.had)
  /\ (regLast.op = "dispatch" /\ regLast.had) => regLast.out = firstReg[regLast.eventType]

\* runScenario3: test_event is bound to mockHandler1 and the register of
\* mockHandler2 for it has thrown.
C6_Witness ==
  /\ regLast.op = "register"
  /\ regLast.eventType = "test_event"
  /\ regLast.handler = "mockHandler2"
  /\ regLast.out = "Conflict"
  /\ handlers["test_event"] = "mockHandler1"
  /\ firstReg["test_event"] = "mockHandler1"

----------------------------------------------------------------------------
(* Properties of the orchestrator.                                         *)

Writing(slot) == task[slot].pc = "write"

\* C1: two events for the same entity, from either webhook, are never both
\* in the Writing state at the same time.
C1_WritingExclusion ==
  \A a, b \in Slots :
    a # b /\ Writing(a) /\ Writing(b) => task[a].id # task[b].id

\* C7: a sheets event that reaches conflict resolution with timestamp T1,
\* on an entity whose record has synchronization timestamp T2, goes on to
\* the upsert iff T1 >= T2; otherwise it ends as 'Dropped due to conflict'
\* and has written nothing.
C7_ConflictResolution ==
  /\ \A slot \in Slots :
       LET t == task[slot]
           T1 == DateMs(t.timestamp)
       IN t.src = "sheets" /\ Writing(slot) /\ T1 # NotADate /\ t.T2 # NotADate
            => T1 >= t.T2
  /\ lastDone.src = "sheets" /\ lastDone.response = "Dropped due to conflict"
       => lastDone.T2 > lastDone.T1 /\ ~lastDone.wrote
  /\ lastDone.src = "sheets" /\ lastDone.wrote
         /\ lastDone.T1 # NotADate /\ lastDone.T2 # NotADate
       => lastDone.T1 >= lastDone.T2

\* A sheets event older than the stored record was dropped.
C7_Witness ==
  /\ lastDone.src = "sheets"
  /\ lastDone.response = "Dropped due to conflict"
  /\ lastDone.T1 = 0
  /\ lastDone.T2 = 5000

\* C8: a change of the table is not written to the sheet when the sheet
\* row's synchronization timestamp is strictly newer than the change's.
C8_StaleChangeDropped ==
  lastWrite.T1 # NotADate /\ lastWrite.T2 # NotADate
    => ~(lastWrite.T2 > lastWrite.T1)


\* C2: after one external edit and no further one, the synchronization
\* does not go round: no state in which an event is waiting comes back, up
\* to a shift of the clock, after a write to a store.
C2_NoUpdateLoop == ~(mark # NoMark /\ markWrote /\ Rel = mark)


\* C20: while a source is paused by the loop breaker, every request from it
\* is answered 429, a repeated body or a seen idempotency key included.
C20_PausedRejectsAll ==
  [][\A source \in Sources :
       LoopPaused(source) /\ hist'.n = hist.n + 1 /\ last'.source = source
         => Is429(last'.answer)]_vars


\* C16: what one server process recorded holds for the other: a request
\* whose idempotency key, or whose body in the same five seconds, the other
\* process has seen within the TTL is suppressed.
C16_SharedGuardState ==
  [][hist'.n = hist.n + 1 =>
       /\ (last'.key # NoKey /\ last'.key \in DOMAIN peer.idempotencyCache
             /\ now <= peer.idempotencyCache[last'.key])
            => last'.answer = "Idempotent OK"
       /\ (RequestFingerprint(last'.source, last'.body) \in DOMAIN peer.fingerprintCache
             /\ now <= peer.fingerprintCache[RequestFingerprint(last'.source, last'.body)])
            => last'.answer \in {"Idempotent OK", "Duplicate Suppressed"}]_vars


\* C18: the row a supabase event writes to the sheet is aligned to the
\* sheet's header row: cell N is the record's value for the sheet's header N.
C18_RowAligned ==
  [][\A slot \in Slots :
       task[slot].src = "supabase" /\ Writing(slot) /\ task'[slot].pc = "idle"
         => \E n \in 1..Len(sheet') :
              sheet'[n] = mapSupabaseToSheets(task[slot].record, sheetHeaders)]_vars


\* C11: once a sheets event for an entity has been upserted, a supabase
\* event for the entity that is tagged source = sheets, carries the upserted
\* content and finds no shifted flag is dropped at the loop check and is not
\* written to the sheet.
C11_SelfEchoDropped ==
  [][\A slot \in Slots :
       LET t == task[slot]
       IN (/\ t.src = "supabase" /\ t.pc = "check"
           /\ Get(t.record, "source") = Str("sheets")
           /\ <<t.id, calculateFingerprint(t.record, sheetHeaders)>> \in upserts
           /\ ~Alive(shifted, t.id))
          => task'[slot].pc # "write"]_vars


Quiescent == pending = {} /\ \A slot \in Slots : Free(slot)

\* The name cell of an entity's row in the sheet, Undef when it has no row.
SheetName(id) ==
  LET idCol == FindIndex(sheetHeaders, IsIdHeader)
      nameCol == FindIndex(sheetHeaders, LAMBDA h : h = "name")
      n == IF idCol = 0 THEN 0 ELSE ScanColumn(sheet, idCol, Str(id))
  IN IF n = 0 \/ nameCol = 0 THEN Undef ELSE At(sheet[n], nameCol)

\* C13: once every event of the edits made so far has been handled, the
\* sheet and the database hold the same name for every entity: no edit is
\* left in one store only.
C13_Convergence ==
  Quiescent =>
    \A id \in Ids : id \in DOMAIN db => SheetName(id) = Get(db[id], "name")


\* C14: once a sheets event that took the entity's burst lock has been
\* answered and the drain delay has passed, the lock is gone, unless a later
\* event for the entity is being handled.
C14_LockReleased ==
  (/\ lastDone.src = "sheets" /\ lastDone.pc \in {"check", "write"}
   /\ now >= lastDone.at + DRAIN_DELAY_MS
   /\ \A slot \in Slots : ~(task[slot].src = "sheets" /\ task[slot].id = lastDone.id))
    => ~Alive(locks, <<"sheets_processing", lastDone.id>>)

\* The answers of the ingress guard.
GuardAnswers ==
  {"Idempotent OK", "Duplicate Suppressed", "429 Loop Breaker Pause",
   "429 Loop Breaker Triggered"}
\* The answers with status 400.
ValidationAnswers ==
  {"400 No row ID found", "400 No row ID found in the detected column"}

\* C15: an event that reaches its handler without a primary id, or while the
\* sheet's header row is empty or has no id column, is answered with status
\* 400 and nothing is written.
C15_ValidationRejects ==
  [][(/\ lastDone' # lastDone
      /\ lastDone'.response \notin GuardAnswers
      /\ \/ lastDone'.id = ""
         \/ sheetHeaders = << >>
         \/ lastDone'.src = "sheets" /\ FindIndex(sheetHeaders, IsIdHeader) = 0)
     => /\ lastDone'.response \in ValidationAnswers
        /\ ~lastDone'.wrote /\ db' = db /\ sheet' = sheet]_vars


\* C17: the shared cache always answers in these runs, so when it holds no
\* fingerprint for the entity no event is dropped for matching a stored
\* fingerprint: the Map localFingerprints does not decide.
C17_FallbackOnlyOnFailure ==
  [][\A slot \in Slots :
       (/\ task[slot].pc = "check"
        /\ task[slot].id \notin DOMAIN lastfingerprint
        /\ task'[slot].pc = "idle")
       => lastDone'.response \notin {"Dropped (Duplicate)", "Skipped loop"}]_vars


\* How far an event is from its answer: the stage it is at, then the
\* attempts its call has left.
Distance(t) ==
  CASE t.pc = "check" -> 2 * (RETRIES + 1) + (RETRIES - t.tries)
    [] t.pc = "write" -> (RETRIES + 1) + (RETRIES - t.tries)
    [] OTHER -> 0

C21_SlidingWindow ==
  \A source \in Sources : Len(hist.recent[source]) <= LOOP_THRESHOLD


\* C22: an idempotency key or a request fingerprint enters its cache with
\* the expiry now + TTL; while it is in the cache its expiry changes only
\* when a request finds it expired and enters it anew; and a request that
\* carries a key whose expiry has passed is not answered as a replay.
C22_CreatedOnceNeverMutated ==
  [][/\ \A k \in DOMAIN idempotencyCache' :
          IF k \in DOMAIN idempotencyCache /\ idempotencyCache'[k] = idempotencyCache[k]
          THEN TRUE
          ELSE /\ idempotencyCache'[k] = now + IDEMPOTENCY_TTL_MS
               /\ k \in DOMAIN idempotencyCache => now > idempotencyCache[k]
     /\ \A f \in DOMAIN fingerprintCache' :
          IF f \in DOMAIN fingerprintCache /\ fingerprintCache'[f] = fingerprintCache[f]
          THEN TRUE
          ELSE /\ fingerprintCache'[f] = now + FINGERPRINT_TTL_MS
               /\ f \in DOMAIN fingerprintCache => now > fingerprintCache[f]
     /\ (/\ hist'.n = hist.n + 1
         /\ last'.key \in DOMAIN idempotencyCache
         /\ now > idempotencyCache[last'.key])
          => last'.answer # "Idempotent OK"]_vars

\* A key was replayed within its TTL, and its first carrier after the
\* expiry set at the first sighting has been passed on and has entered the
\* key anew.
C22_Witness ==
  /\ hist.keyIdem["k1"] >= 1
  /\ last.key = "k1" /\ last.answer = "next"
  /\ last.t > hist.keyFirst["k1"] + IDEMPOTENCY_TTL_MS
  /\ "k1" \in DOMAIN idempotencyCache
  /\ idempotencyCache["k1"] = last.t + IDEMPOTENCY_TTL_MS


\* The position, counted as the Sheets API counts rows, of the rows of the
\* sheet whose cell in the id column is the entity's id.
RowsOf(id) ==
  LET idCol == FindIndex(sheetHeaders, IsIdHeader)
  IN {n \in 1..Len(AllRows) : At(AllRows[n], IF idCol = 0 THEN 1 ELSE idCol) = Str(id)}

ShiftHeaders == <<"id", "is_paid", "name">>
ShiftRounds == {1, 2}

ShiftInit ==
  /\ FreshGuard /\ PureIdle /\ RegIdle
  /\ sheetHeaders = ShiftHeaders
  /\ sheet = << >>
  /\ db = << >>
  /\ locks = << >>
  /\ lastfingerprint = << >>
  /\ localFingerprints = << >>
  /\ shifted = << >>
  /\ rowindex = << >>
  /\ headerCache = NoCache
  /\ pending = {}
  /\ task = [slot \in Slots |-> Idle]
  /\ lastDone = NothingDone
  /\ edits = 0
  /\ lastWrite = NothingWritten
  /\ sheetsQueue = QueueIdle
  /\ localLocks = << >>
  /\ valid_categories = validCategories
  /\ syncCategoriesPc = "idle"
  /\ eventKeys = << >>
  /\ mark = NoMark
  /\ markWrote = FALSE
  /\ upserts = {}

ShiftNext ==
  \/ Handle(1)
  \/ \E id \in Ids, name \in Names : SheetEdit(id, name, ShiftRounds)
  \/ \E d \in SyncTicks : Tick(d, MaxNow)

SpecShift == ShiftInit /\ [][ShiftNext]_vars

\* C24: once every event has been handled no misalignment flag is left
\* standing: the flag a sheets event raised has been cleared by the event
\* that rewrote the row.
C24_FlagLeadsToRewrite ==
  Quiescent => \A id \in Ids : ~Alive(shifted, id)


\* The fingerprint a store of fingerprints holds for an entity: <<fp>>, or
\* << >> when it holds none.
FpOf(m, id) == IF id \in DOMAIN m THEN <<m[id]>> ELSE << >>

\* C25: a fingerprint is stored for an entity, under lastfingerprint or in
\* localFingerprints, only by the step in which an event for the entity
\* finishes its write to the other store and is answered OK; both then hold
\* the fingerprint of the record that step wrote: the record whose cells
\* are in the sheet row, or the record the table holds after the upsert.
C25_FingerprintFollowsWrite ==
  [][\A id \in Ids :
       (\/ (id \in DOMAIN lastfingerprint'
              /\ FpOf(lastfingerprint', id) # FpOf(lastfingerprint, id))
        \/ (id \in DOMAIN localFingerprints'
              /\ FpOf(localFingerprints', id) # FpOf(localFingerprints, id)))
       => \E slot \in Slots :
            LET t == task[slot]
                rowData == mapSupabaseToSheets(t.record, t.headers)
            IN /\ t.pc = "write" /\ t.id = id
               /\ task'[slot] = Idle
               /\ lastDone'.src = t.src /\ lastDone'.id = id
               /\ lastDone'.wrote /\ lastDone'.response = "OK"
               /\ FpOf(lastfingerprint', id) = FpOf(localFingerprints', id)
               /\ IF t.src = "supabase"
                  THEN /\ id \in DOMAIN rowindex'
                       /\ rowindex'[id] \in 2..(Len(sheet') + 1)
                       /\ SubSeq(sheet'[rowindex'[id] - 1], 1, Len(rowData)) = rowData
                       /\ lastfingerprint'[id] = calculateFingerprint(t.record, t.headers)
                  ELSE /\ id \in DOMAIN db'
                                              /\ lastfingerprint'[id] = calculateFingerprint(db'[id], t.headers)]_vars

\* The echo of an upsert failed at its first call after every retry; the
\* fingerprint the upsert stored is still the one both stores hold, and it
\* is the fingerprint of the record in the table.
C25_Witness ==
  /\ lastDone.src = "supabase"
  /\ lastDone.response = "500 Internal Server Error"
  /\ lastDone.tries = RETRIES
  /\ lastDone.id \in DOMAIN lastfingerprint
  /\ lastDone.id \in DOMAIN db
  /\ <<lastDone.id, lastfingerprint[lastDone.id]>> \in upserts
  /\ FpOf(localFingerprints, lastDone.id) = FpOf(lastfingerprint, lastDone.id)
  /\ lastfingerprint[lastDone.id] = calculateFingerprint(db[lastDone.id], sheetHeaders)


\* The value v is what the cell c holds, or the number or the boolean the
\* cell's content stands for.
FromCell(v, c) ==
  /\ c \notin {Null, Undef, Str("")}
  /\ \/ v = c
     \/ ToNumber(c) # NaN /\ v = ToNumber(c)
     \/ BoolCell(c) # Null /\ v = BoolCell(c)

\* C26: every value of the record mapSheetsToSupabase returns is null or
\* comes from a cell of the row it was given: the cell's content, or that
\* content as a number or as a boolean.
C26_NeverInvents ==
  mapOut # None =>
    \A i \in 1..Len(mapOut[1]) :
      mapOut[1][i][2] # Null
        => \E j \in 1..Len(mapIn[1]) : FromCell(mapOut[1][i][2], mapIn[1][j])

\* The row 'Tea', u1, 99 under id, name, price: the id is recovered from the
\* second cell, the name from the first, and the price is the number 99.
C26_Witness ==
  /\ mapOut # None
  /\ mapIn = << <<Str("Tea"), Str("u1"), Str("99")>>, <<"id", "name", "price">> >>
  /\ mapOut[1] = << <<"id", Str("u1")>>, <<"name", Str("Tea")>>, <<"price", Num("99")>> >>


----------------------------------------------------------------------------
(* A run of changes to one record: an application renames it up to seven   *)
(* times within 1.2 s, each time after the change before has been handled; *)
(* the first edit may be a user's in the sheet instead.                    *)

QueueNames == <<"Chai", "Tea", "latte", "mocha", "lassi", "cocoa", "soda">>
QueueRounds == 1..Len(QueueNames)
QueueTicks == {600}
QueueMaxNow == 1200

\* The application gives the record its next name, once the change before
\* has been handled.
Rename(id) ==
  /\ edits < Len(QueueNames)
  /\ Quiescent
  /\ SupabaseEdit(id, QueueNames[edits + 1], QueueRounds)

QueueNext ==
  \/ Handle(1)
  \/ \E id \in Ids : Rename(id)
  \/ \E id \in Ids, name \in Names : SheetEdit(id, name, {1})
  \/ \E d \in QueueTicks : Tick(d, QueueMaxNow)

SpecQueue == Init /\ [][QueueNext]_vars

\* C27: of the tasks sheetsQueue has started, at most intervalCap started
\* within any one second: the latest start and the starts less than 1000 ms
\* before it are never more than 5.
C27_QueueRate == Len(sheetsQueue.recent) <= intervalCap


\* C28: when an event has just been answered 'OK (Burst Protected)' while
\* another event for the same entity is being handled, the lock that event
\* took is still there.
C28_BurstKeepsLock ==
  \A slot \in Slots :
    (/\ lastDone.response = "OK (Burst Protected)"
     /\ lastDone.at = now
     /\ ~Free(slot)
     /\ task[slot].src = lastDone.src
     /\ task[slot].id = lastDone.id)
    => Alive(locks, <<IF lastDone.src = "supabase" THEN "supabase_processing"
                      ELSE "sheets_processing", lastDone.id>>)


----------------------------------------------------------------------------
(* The handlers while Redis is unreachable: every redis call rejects.  The *)
(* locks are then entries of the Set localLocks, the stored fingerprint is *)
(* the one of localFingerprints, no shifted flag and no row position is    *)
(* read or written, and the category check is skipped.                     *)

\* `${tableName}:${rowId}` (line 150) and `sheets:${lockKey}` (line 383).
LocalKey(src, id) == <<IF src = "sheets" THEN "sheets" ELSE "", id>>
\* An entry no timer deletes.
NoTimer == -1
\* localLocks.has(key)
HasLocal(key) ==
  key \in DOMAIN localLocks /\ (localLocks[key] = NoTimer \/ localLocks[key] > now)
\* localLocks.delete(key)
DeleteLocal(key) == [k \in DOMAIN localLocks \ {key} |-> localLocks[k]]

\* Lines 107-168 with the catch of lines 157-163.
DownSupabaseArrive(e, cap) ==
  /\ e \in pending
  /\ e.src = "supabase"
  /\ InFlight < cap
  /\ GuardStep(e)
  /\ pending' = pending \ {e}
  /\ LET answer == Answer("supabase", NoKey, BodyOf(e))
         rowId == Get(e.record, "id")
         lockKey == LocalKey("supabase", ToStr(rowId))
         t == [Idle EXCEPT !.src = "supabase", !.id = ToStr(rowId),
                            !.type = e.type, !.record = e.record]
     IN IF answer # "next"
        THEN /\ lastDone' = Done(t, answer)
             /\ UNCHANGED <<task, localLocks>>
        ELSE IF ~Truthy(rowId)
        THEN /\ lastDone' = Done(t, "400 No row ID found")
             /\ UNCHANGED <<task, localLocks>>
        ELSE IF HasLocal(lockKey)
        THEN /\ lastDone' = Done(t, "OK (Burst Protected)")
             /\ UNCHANGED <<task, localLocks>>
        ELSE /\ task' = SetTask(FirstFree, [t EXCEPT !.pc = "check"])
             /\ localLocks' = MapSet(localLocks, lockKey, NoTimer)
             /\ lastDone' = lastDone
  /\ UNCHANGED <<sheetHeaders, sheet, db, locks, lastfingerprint, localFingerprints,
                 shifted, rowindex, headerCache, edits, lastWrite, sheetsQueue, valid_categories, syncCategoriesPc, eventKeys, mark,
                 markWrote, upserts>>
  /\ UNCHANGED exceptSync

\* Lines 170-227: the stored fingerprint is the local one (lines 201-208)
\* and isShifted is null (line 210).
DownSupaCheck(slot) ==
  LET t == task[slot]
      cached == headerCache # NoCache /\ now - headerCache[2] < HEADER_CACHE_TTL
      fetched == IF cached THEN headerCache[1] ELSE sheetHeaders
      headers == FpKeys(t.record, fetched)
      incomingFingerprint == calculateFingerprint(t.record, fetched)
      fromSheets == Get(t.record, "source") = Str("sheets")
  IN /\ t.src = "supabase"
     /\ t.pc = "check"
     /\ IF Len(fetched) = 0
        THEN /\ lastDone' = Done(t, "500 Internal Server Error")
             /\ task' = SetTask(slot, Idle)
             /\ UNCHANGED <<headerCache, localLocks>>
        ELSE /\ headerCache' = <<headers, IF cached THEN headerCache[2] ELSE now>>
             /\ IF fromSheets
                   /\ FpOf(localFingerprints, t.id) = <<incomingFingerprint>>
                THEN /\ lastDone' = Done(t, "Skipped loop")
                     /\ task' = SetTask(slot, Idle)
                     /\ localLocks' = DeleteLocal(LocalKey("supabase", t.id))
                ELSE IF t.type \in {"INSERT", "UPDATE"}
                THEN /\ task' = SetTask(slot, [t EXCEPT !.pc = "write", !.tries = 0,
                                                 !.headers = headers,
                                                 !.fp = incomingFingerprint])
                     /\ UNCHANGED <<lastDone, localLocks>>
                ELSE /\ lastDone' = Done(t, "OK")
                     /\ task' = SetTask(slot, Idle)
                     /\ localLocks' = DeleteLocal(LocalKey("supabase", t.id))
     /\ UNCHANGED <<sheetHeaders, sheet, db, locks, lastfingerprint, localFingerprints,
                    shifted, rowindex, pending, edits, lastWrite, sheetsQueue, valid_categories, syncCategoriesPc, eventKeys, mark,
                    markWrote, upserts>>
     /\ UNCHANGED <<guardVars, exceptSync>>

\* Lines 228-339: no row position is read from or written to Redis (lines
\* 243, 281, 315), the fingerprint is stored in localFingerprints only
\* (lines 321-322), and the local lock is deleted (line 325).
DownSupaWrite(slot) ==
  LET t == task[slot]
      rowId == Get(t.record, "id")
      idColIndex == FindIndex(t.headers, IsIdHeader)
      actualIdIndex == IF idColIndex # 0 THEN idColIndex ELSE 1
      rowData == mapSupabaseToSheets(t.record, t.headers)
      rows == AllRows
      rowIndex == ScanColumn(rows, actualIdIndex, rowId)
      target == IF rowIndex # 0 THEN rowIndex ELSE Len(rows) + 1
      old == IF rowIndex # 0 THEN rows[rowIndex] ELSE << >>
      written == UpdateRow(old, rowData)
  IN /\ t.src = "supabase"
     /\ t.pc = "write"
     /\ rowIndex = 0 => Len(sheet) < MaxRows
     /\ QueueAdmits
     /\ sheetsQueue' = QueueStart
     /\ sheetHeaders' = IF target = 1 THEN [i \in 1..Len(written) |-> ToStr(written[i])]
                        ELSE sheetHeaders
     /\ sheet' = IF target = 1 THEN sheet
                 ELSE IF rowIndex # 0 THEN [sheet EXCEPT ![rowIndex - 1] = written]
                 ELSE Append(sheet, written)
     /\ localFingerprints' = MapSet(localFingerprints, t.id, t.fp)
     /\ pending' = IF target # 1 /\ Truthy(At(written, 1))
                   THEN pending \cup {SheetsEvent(written)} ELSE pending
     /\ lastWrite' = [id |-> t.id,
                      T1 |-> DateMs(ToStr(Get(t.record, "synced_at"))),
                      T2 |-> SyncedAtOf(old),
                      content |-> DelKeys(t.record, fieldsToExclude),
                      fp |-> t.fp,
                      cached |-> 0]
     /\ lastDone' = Done([t EXCEPT !.wrote = TRUE], "OK")
     /\ task' = SetTask(slot, Idle)
     /\ localLocks' = DeleteLocal(LocalKey("supabase", t.id))
     /\ markWrote' = TRUE
     /\ UNCHANGED <<db, locks, lastfingerprint, shifted, rowindex, headerCache, edits,
                    valid_categories, syncCategoriesPc, eventKeys, mark, upserts>>
     /\ UNCHANGED <<guardVars, exceptSync>>

\* Lines 346-392 with the catch of lines 381-388: the entry is deleted by
\* the timer of line 386.
DownSheetsArrive(e, cap) ==
  /\ e \in pending
  /\ e.src = "sheets"
  /\ InFlight < cap
  /\ GuardStep(e)
  /\ pending' = pending \ {e}
  /\ LET answer == Answer("sheets", NoKey, BodyOf(e))
         headers == sheetHeaders
         idIndex == FindIndex(headers, IsIdHeader)
         rowId == At(e.row, idIndex)
         lockKey == LocalKey("sheets", ToStr(rowId))
         t == [Idle EXCEPT !.src = "sheets", !.id = ToStr(rowId), !.row = e.row,
                            !.timestamp = e.timestamp, !.headers = headers]
     IN IF answer # "next"
        THEN /\ lastDone' = Done(t, answer)
             /\ UNCHANGED <<task, localLocks>>
        ELSE IF idIndex = 0
        THEN /\ lastDone' = Done(t, "500 Internal Server Error")
             /\ UNCHANGED <<task, localLocks>>
        ELSE IF ~Truthy(rowId)
        THEN /\ lastDone' = Done(t, "400 No row ID found in the detected column")
             /\ UNCHANGED <<task, localLocks>>
        ELSE IF HasLocal(lockKey)
        THEN /\ lastDone' = Done(t, "OK (Burst Protected)")
             /\ UNCHANGED <<task, localLocks>>
        ELSE /\ task' = SetTask(FirstFree, [t EXCEPT !.pc = "check"])
             /\ localLocks' = MapSet(localLocks, lockKey, now + SHEETS_LOCK_TTL_MS)
             /\ lastDone' = lastDone
  /\ UNCHANGED <<sheetHeaders, sheet, db, locks, lastfingerprint, localFingerprints,
                 shifted, rowindex, headerCache, edits, lastWrite, sheetsQueue, valid_categories, syncCategoriesPc, eventKeys, mark,
                 markWrote, upserts>>
  /\ UNCHANGED exceptSync

\* Lines 394-456: the category is kept (lines 415-418), the fingerprint is
\* compared with the local one, and the duplicate drop deletes
\* `${table}:${rowId}` from localLocks (line 432).
DownSheetsCheck(slot) ==
  LET t == task[slot]
      incomingRecord == mapSheetsToSupabase(t.row, t.headers)
      incomingFingerprint == calculateFingerprint(incomingRecord, t.headers)
      currentRecord == IF t.id \in DOMAIN db THEN db[t.id] ELSE EmptyObj
      T1 == DateMs(t.timestamp)
      T2 == IF Truthy(Get(currentRecord, "synced_at"))
            THEN DateMs(ToStr(Get(currentRecord, "synced_at"))) ELSE NotADate
  IN /\ t.src = "sheets"
     /\ t.pc = "check"
     /\ IF FpOf(localFingerprints, t.id) = <<incomingFingerprint>>
        THEN /\ lastDone' = Done(t, "Dropped (Duplicate)")
             /\ task' = SetTask(slot, Idle)
             /\ localLocks' = DeleteLocal(<<"", t.id>>)
        ELSE IF IsConflict(T1, T2)
        THEN /\ lastDone' = Done([t EXCEPT !.T2 = T2], "Dropped due to conflict")
             /\ task' = SetTask(slot, Idle)
             /\ localLocks' = localLocks
        ELSE /\ task' = SetTask(slot, [t EXCEPT !.pc = "write", !.tries = 0, !.T2 = T2,
                                         !.record = incomingRecord,
                                         !.fp = incomingFingerprint])
             /\ UNCHANGED <<lastDone, localLocks>>
     /\ UNCHANGED <<sheetHeaders, sheet, db, locks, lastfingerprint, localFingerprints,
                    shifted, rowindex, headerCache, pending, edits, lastWrite, sheetsQueue,
                    valid_categories, syncCategoriesPc, eventKeys, mark, markWrote, upserts>>
     /\ UNCHANGED <<guardVars, exceptSync>>

\* Lines 458-486: the upsert; the fingerprint is stored in localFingerprints
\* only (lines 479-480).
DownSheetsWrite(slot) ==
  LET t == task[slot]
      sheetsSyncedAt == DateMs(t.timestamp)
      supabaseRecord ==
        Put(Put(DelKeys(t.record, fieldsToExclude), "source", Str("sheets")),
            "synced_at", Str(toISOString(sheetsSyncedAt)))
      key == Get(supabaseRecord, "id")
      existed == ToStr(key) \in DOMAIN db
      stored == PutAll(IF existed THEN db[ToStr(key)] ELSE EmptyObj, supabaseRecord)
  IN /\ t.src = "sheets"
     /\ t.pc = "write"
     /\ IF ~Truthy(key)
        THEN /\ lastDone' = Done(t, "500 Internal Server Error")
             /\ UNCHANGED <<db, pending, localFingerprints, markWrote, upserts>>
        ELSE /\ db' = MapSet(db, ToStr(key), stored)
             /\ pending' = pending \cup
                  {SupabaseEvent(IF existed THEN "UPDATE" ELSE "INSERT", stored)}
             /\ localFingerprints' = MapSet(localFingerprints, t.id, t.fp)
             /\ lastDone' = Done([t EXCEPT !.wrote = TRUE], "OK")
             /\ markWrote' = TRUE
             /\ upserts' = upserts \cup {<<t.id, t.fp>>}
     /\ task' = SetTask(slot, Idle)
     /\ UNCHANGED <<sheetHeaders, sheet, locks, lastfingerprint, shifted, rowindex,
                    headerCache, edits, lastWrite, sheetsQueue, localLocks, valid_categories, syncCategoriesPc, eventKeys, mark>>
     /\ UNCHANGED <<guardVars, exceptSync>>

DownNext ==
  \/ \E e \in pending : DownSupabaseArrive(e, Cardinality(Slots))
  \/ \E e \in pending : DownSheetsArrive(e, Cardinality(Slots))
  \/ \E slot \in Slots : DownSupaCheck(slot)
  \/ \E slot \in Slots : DownSupaWrite(slot)
  \/ \E slot \in Slots : DownSheetsCheck(slot)
  \/ \E slot \in Slots : DownSheetsWrite(slot)
  \/ \E id \in Ids, name \in Names : SheetEdit(id, name, EditRounds)
  \/ \E id \in Ids, name \in Names : SupabaseEdit(id, name, EditRounds)
  \/ \E d \in SyncTicks : Tick(d, MaxNow)

SpecDown == Init /\ [][DownNext]_vars

\* C29: while Redis is unreachable, an event that is being handled has its
\* entry in localLocks: the entry of a supabase event until the event is
\* answered, the entry of a sheets event until its timer deletes it.  No
\* other event's handling has removed it.
C29_LocalLockKept ==
  \A slot \in Slots :
    ~Free(slot) =>
      \/ HasLocal(LocalKey(task[slot].src, task[slot].id))
      \/ /\ task[slot].src = "sheets"
         /\ LocalKey("sheets", task[slot].id) \in DOMAIN localLocks


\* C30: when supabaseHandler has computed the fingerprint of an event's
\* record over the header list, the list, which is the one the header
\* cache holds, is the list that was fetched or found in the cache, in the
\* same order, and the record is what it was.
C30_ArgumentsUnchanged ==
  [][\A slot \in Slots :
       (/\ task[slot].src = "supabase" /\ task[slot].pc = "check"
        /\ task'[slot].pc = "write")
       => LET cached == headerCache # NoCache
                          /\ now - headerCache[2] < HEADER_CACHE_TTL
              fetched == IF cached THEN headerCache[1] ELSE sheetHeaders
          IN /\ headerCache'[1] = fetched
             /\ task'[slot].headers = fetched
             /\ task'[slot].record = task[slot].record]_vars


\* C31: the fields of the record mapSheetsToSupabase returns are the
\* non-empty headers of the header row, no more and no fewer.
C31_FieldsAreHeaders ==
  mapOut # None =>
    KeySet(mapOut[1]) = {h \in SeqRange(mapIn[2]) : h # ""}


----------------------------------------------------------------------------
(* A row typed one column off: the name is in the id column and the id in  *)
(* the column after it.                                                    *)

PasteRow(id, name) ==
  [i \in 1..Len(sheetHeaders) |->
     CASE i = 1 -> Str(name) [] i = 2 -> Str(id) [] OTHER -> Str("")]

\* A user adds such a row; onEdit of Code.gs posts it.
SheetPaste(id, name, rounds) ==
  /\ edits + 1 \in rounds
  /\ Len(sheet) < MaxRows
  /\ sheet' = Append(sheet, PasteRow(id, name))
  /\ pending' = pending \cup {SheetsEvent(PasteRow(id, name))}
  /\ edits' = edits + 1
  /\ UNCHANGED <<sheetHeaders, db, locks, lastfingerprint, localFingerprints, shifted,
                 rowindex, headerCache, task, lastDone, lastWrite, sheetsQueue, localLocks,
                 valid_categories, syncCategoriesPc, eventKeys, mark, markWrote, upserts>>
  /\ UNCHANGED <<guardVars, exceptSync>>

PasteNext ==
  \/ Handle(1)
  \/ \E id \in Ids, name \in Names : SheetEdit(id, name, ShiftRounds)
  \/ \E id \in Ids, name \in Names : SheetPaste(id, name, ShiftRounds)
  \/ \E d \in SyncTicks : Tick(d, MaxNow)

SpecPaste == ShiftInit /\ [][PasteNext]_vars

\* C32: the record a sheets event upserts has the id the event was locked,
\* looked up and checked for conflicts under: the record that the upsert
\* stores or changes in the table is the one of that id.
C32_OneIdPerEvent ==
  [][\A slot \in Slots :
       (/\ task[slot].src = "sheets" /\ task[slot].pc = "write"
        /\ task'[slot].pc = "idle" /\ lastDone'.wrote)
       => \A k \in DOMAIN db' :
            (k \notin DOMAIN db \/ db'[k] # db[k]) => k = task[slot].id]_vars


\* C33: an upsert made by a sheets event never moves the synced_at of a
\* record of the table back in time.
C33_SyncedAtMonotone ==
  [][\A slot \in Slots :
       (/\ task[slot].src = "sheets" /\ task[slot].pc = "write"
        /\ task'[slot].pc = "idle" /\ lastDone'.wrote)
       => \A k \in DOMAIN db \cap DOMAIN db' :
            Truthy(Get(db[k], "synced_at")) =>
              DateMs(ToStr(Get(db'[k], "synced_at")))
                >= DateMs(ToStr(Get(db[k], "synced_at")))]_vars


----------------------------------------------------------------------------
(* The queue task of supabaseHandler in two steps. p-queue runs the tasks  *)
(* it has started side by side, and a task gives way at every awaited     *)
(* call: between the reads that find the row (lines 243-278) and the      *)
(* write (lines 280-311) other tasks and the users of the sheet act.      *)

RaceIds == {"u1", "u2"}
RaceRounds == {1, 2}
RaceRowsRounds == {1, 2, 3}

\* Both records are in the table; the sheet has the row of u2 and not yet
\* one for u1.
RaceInit ==
  /\ FreshGuard /\ PureIdle /\ RegIdle
  /\ sheetHeaders = SyncHeaders
  /\ sheet = << <<Str("u2"), Str("Tea"), Str(toISOString(0))>> >>
  /\ db = [id \in RaceIds |->
             << <<"id", Str(id)>>, <<"name", Str("Tea")>>,
                <<"synced_at", Str(toISOString(0))>>, <<"source", Str("supabase")>> >>]
  /\ locks = << >>
  /\ lastfingerprint = << >>
  /\ localFingerprints = << >>
  /\ shifted = << >>
  /\ rowindex = << >>
  /\ headerCache = NoCache
  /\ pending = {}
  /\ task = [slot \in Slots |-> Idle]
  /\ lastDone = NothingDone
  /\ edits = 0
  /\ lastWrite = NothingWritten
  /\ sheetsQueue = QueueIdle
  /\ localLocks = << >>
  /\ valid_categories = validCategories
  /\ syncCategoriesPc = "idle"
  /\ eventKeys = << >>
  /\ mark = NoMark
  /\ markWrote = FALSE
  /\ upserts = {}

\* Lines 230-278: the task starts, reads rowindex:<table>:<id>, verifies the
\* id cell of that row and scans the id column when there is no verified
\* index.
SupaLocate(slot) ==
  LET t == task[slot]
      rowId == Get(t.record, "id")
      idColIndex == FindIndex(t.headers, IsIdHeader)
      actualIdIndex == IF idColIndex # 0 THEN idColIndex ELSE 1
      rows == AllRows
      cachedIndex == IF t.id \in DOMAIN rowindex THEN rowindex[t.id] ELSE 0
      verified == cachedIndex # 0 /\ cachedIndex <= Len(rows)
                    /\ At(rows[cachedIndex], actualIdIndex) = rowId
      rowIndex == IF verified THEN cachedIndex
                  ELSE ScanColumn(rows, actualIdIndex, rowId)
  IN /\ t.src = "supabase"
     /\ t.pc = "write"
     /\ QueueAdmits
     /\ sheetsQueue' = QueueStart
     /\ rowindex' = IF rowIndex # 0 THEN MapSet(rowindex, t.id, rowIndex)
                    ELSE MapDel(rowindex, t.id)
     /\ task' = SetTask(slot, [t EXCEPT !.pc = "put", !.rowIndex = rowIndex])
     /\ UNCHANGED <<sheetHeaders, sheet, db, locks, lastfingerprint, localFingerprints,
                    shifted, headerCache, pending, lastDone, edits, lastWrite, localLocks,
                    valid_categories, syncCategoriesPc, eventKeys, mark, markWrote, upserts>>
     /\ UNCHANGED <<guardVars, exceptSync>>

\* Lines 280-339: values.update at the row found, or values.append; the
\* row index and the fingerprint are stored and the finally block runs.
SupaPut(slot) ==
  LET t == task[slot]
      rowData == mapSupabaseToSheets(t.record, t.headers)
      rows == AllRows
      rowIndex == t.rowIndex
      target == IF rowIndex # 0 THEN rowIndex ELSE Len(rows) + 1
      old == IF rowIndex # 0 /\ rowIndex <= Len(rows) THEN rows[rowIndex] ELSE << >>
      written == UpdateRow(old, rowData)
      padded == sheet \o [i \in 1..(target - 1 - Len(sheet)) |-> << >>]
  IN /\ t.src = "supabase"
     /\ t.pc = "put"
     /\ rowIndex = 0 => Len(sheet) < MaxRows
     /\ sheetHeaders' = IF target = 1 THEN [i \in 1..Len(written) |-> ToStr(written[i])]
                        ELSE sheetHeaders
     /\ sheet' = IF target = 1 THEN sheet
                 ELSE IF rowIndex # 0 THEN [padded EXCEPT ![rowIndex - 1] = written]
                 ELSE Append(sheet, written)
     /\ rowindex' = IF rowIndex # 0 THEN rowindex ELSE MapSet(rowindex, t.id, target)
     /\ lastfingerprint' = MapSet(lastfingerprint, t.id, t.fp)
     /\ localFingerprints' = MapSet(localFingerprints, t.id, t.fp)
     /\ pending' = IF target # 1 /\ Truthy(At(written, 1))
                   THEN pending \cup {SheetsEvent(written)} ELSE pending
     /\ lastWrite' = [id |-> t.id,
                      T1 |-> DateMs(ToStr(Get(t.record, "synced_at"))),
                      T2 |-> SyncedAtOf(old),
                      content |-> DelKeys(t.record, fieldsToExclude),
                      fp |-> t.fp,
                      cached |-> rowIndex]
     /\ Finish(slot, [t EXCEPT !.wrote = TRUE], "OK")
     /\ markWrote' = TRUE
     /\ UNCHANGED <<db, shifted, headerCache, edits, sheetsQueue, localLocks, valid_categories, syncCategoriesPc, eventKeys, mark, upserts>>
     /\ UNCHANGED <<guardVars, exceptSync>>

RaceHandle(cap) ==
  \/ \E e \in pending : SupabaseArrive(e, cap)
  \/ \E e \in pending : SheetsArrive(e, cap)
  \/ \E slot \in Slots : SupaCheck(slot)
  \/ \E slot \in Slots : SupaLocate(slot)
  \/ \E slot \in Slots : SupaPut(slot)
  \/ \E slot \in Slots : SheetsCheck(slot)
  \/ \E slot \in Slots : SheetsWrite(slot)

\* Applications change records of the table; nobody touches the sheet.
RaceNext ==
  \/ RaceHandle(Cardinality(Slots))
  \/ \E id \in RaceIds, name \in Names : SupabaseEdit(id, name, RaceRounds)
  \/ \E d \in SyncTicks : Tick(d, MaxNow)

SpecRace == RaceInit /\ [][RaceNext]_vars

\* The id column of the sheet, header row left out.
IdCells == [n \in 1..Len(sheet) |-> At(sheet[n], FindIndex(sheetHeaders, IsIdHeader))]

\* C34: no id is in the id cell of two rows of the sheet, whatever supabase
\* events were handled and however they interleaved.
C34_OneRowPerId ==
  \A n, k \in 1..Len(sheet) :
    (n # k /\ Truthy(IdCells[n])) => IdCells[n] # IdCells[k]


\* The same while users of the sheet insert and delete rows.
RaceRowsNext ==
  \/ RaceHandle(Cardinality(Slots))
  \/ \E id \in RaceIds, name \in Names : SupabaseEdit(id, name, RaceRowsRounds)
  \/ InsertRowAbove(RaceRowsRounds)
  \/ \E n \in 1..MaxRows : DeleteRow(n, RaceRowsRounds)

SpecRaceRows == RaceInit /\ [][RaceRowsNext]_vars

\* C35: values.update for an entity is never sent to a row whose id cell
\* holds, at that moment, the id of another entity.
C35_UpdateHitsOwnRow ==
  [][\A slot \in Slots :
       (/\ task[slot].src = "supabase" /\ task[slot].pc = "put"
        /\ task'[slot].pc = "idle"
        /\ task[slot].rowIndex # 0 /\ task[slot].rowIndex <= Len(AllRows))
       => LET cell == At(AllRows[task[slot].rowIndex],
                         FindIndex(sheetHeaders, IsIdHeader))
          IN Truthy(cell) => cell = Get(task[slot].record, "id")]_vars


----------------------------------------------------------------------------
(* syncCategories, started when the server starts and every 5 minutes      *)
(* after, in its two Redis calls.                                          *)

\* Lines 56-60: the ids are selected and the set is deleted.
SyncCategoriesDel ==
  /\ syncCategoriesPc = "idle"
  /\ validCategories # {}
  /\ valid_categories' = {}
  /\ syncCategoriesPc' = "deleted"
  /\ UNCHANGED <<sheetHeaders, sheet, db, locks, lastfingerprint, localFingerprints,
                 shifted, rowindex, headerCache, pending, task, lastDone, edits,
                 lastWrite, sheetsQueue, localLocks, eventKeys, mark, markWrote, upserts>>
  /\ UNCHANGED <<guardVars, exceptSync>>

\* Line 61: the ids selected are added.
SyncCategoriesAdd ==
  /\ syncCategoriesPc = "deleted"
  /\ valid_categories' = valid_categories \cup validCategories
  /\ syncCategoriesPc' = "idle"
  /\ UNCHANGED <<sheetHeaders, sheet, db, locks, lastfingerprint, localFingerprints,
                 shifted, rowindex, headerCache, pending, task, lastDone, edits,
                 lastWrite, sheetsQueue, localLocks, eventKeys, mark, markWrote, upserts>>
  /\ UNCHANGED <<guardVars, exceptSync>>

RefreshHeaders == <<"category_id", "id", "name">>
RefreshRounds == {1, 2}

\* The record of u1, of category c1, is in step in both stores.
RefreshInit ==
  /\ FreshGuard /\ PureIdle /\ RegIdle
  /\ sheetHeaders = RefreshHeaders
  /\ sheet = << <<Str("c1"), Str("u1"), Str("Tea")>> >>
  /\ db = [id \in {"u1"} |->
             << <<"category_id", Str("c1")>>, <<"id", Str("u1")>>,
                <<"name", Str("Tea")>>, <<"source", Str("supabase")>> >>]
  /\ locks = << >>
  /\ lastfingerprint = << >>
  /\ localFingerprints = << >>
  /\ shifted = << >>
  /\ rowindex = << >>
  /\ headerCache = NoCache
  /\ pending = {}
  /\ task = [slot \in Slots |-> Idle]
  /\ lastDone = NothingDone
  /\ edits = 0
  /\ lastWrite = NothingWritten
  /\ sheetsQueue = QueueIdle
  /\ localLocks = << >>
  /\ valid_categories = validCategories
  /\ syncCategoriesPc = "idle"
  /\ eventKeys = << >>
  /\ mark = NoMark
  /\ markWrote = FALSE
  /\ upserts = {}

RefreshNext ==
  \/ Handle(1)
  \/ \E id \in Ids, name \in Names : SheetEdit(id, name, RefreshRounds)
  \/ SyncCategoriesDel
  \/ SyncCategoriesAdd
  \/ \E d \in SyncTicks : Tick(d, MaxNow)

SpecRefresh == RefreshInit /\ [][RefreshNext]_vars

\* C36: a sheets event whose row has a category_id that is in
\* menu_categories is upserted with that category_id.
C36_ValidCategoryKept ==
  [][\A slot \in Slots :
       (/\ task[slot].src = "sheets" /\ task[slot].pc = "write"
        /\ task'[slot].pc = "idle" /\ lastDone'.wrote)
       => LET category ==
                Get(mapSheetsToSupabase(task[slot].row, task[slot].headers),
                    "category_id")
          IN (Truthy(category) /\ ToStr(category) \in validCategories)
               => Get(db'[task[slot].id], "category_id") = category]_vars


----------------------------------------------------------------------------
(* Deliveries to /supabase-webhook that carry an x-supabase-event-id       *)
(* header: with or without the secret, with or without a row id.           *)

EventIds == {"e1"}
EventRounds == {1, 2}
Rejections == {"400 No row ID found", "401 Unauthorized: Invalid Signature or Secret"}

\* The record of an entity as the table has it is posted under an event
\* id; hasId = FALSE leaves record.id out.
SupabaseDeliver(eventId, id, hasId, authentic, rounds) ==
  LET record == IF hasId THEN db[id] ELSE DelKey(db[id], "id")
  IN /\ edits + 1 \in rounds
     /\ id \in DOMAIN db
     /\ pending' = pending \cup
          {[SupabaseEvent("UPDATE", record) EXCEPT !.eventId = eventId,
                                                  !.authentic = authentic]}
     /\ edits' = edits + 1
     /\ UNCHANGED <<sheetHeaders, sheet, db, locks, lastfingerprint, localFingerprints,
                    shifted, rowindex, headerCache, task, lastDone, lastWrite,
                    sheetsQueue, localLocks, valid_categories, syncCategoriesPc,
                    eventKeys, mark, markWrote, upserts>>
     /\ UNCHANGED <<guardVars, exceptSync>>

EventNext ==
  \/ Handle(1)
  \/ \E eventId \in EventIds, id \in Ids, hasId \in BOOLEAN, authentic \in BOOLEAN :
       SupabaseDeliver(eventId, id, hasId, authentic, EventRounds)
  \/ \E id \in Ids, name \in Names : SupabaseEdit(id, name, EventRounds)
  \/ \E d \in SyncTicks : Tick(d, MaxNow)

SpecEvent == Init /\ [][EventNext]_vars

\* C37: a request to /supabase-webhook answered 400 for its missing row id
\* or 401 leaves the event:<eventId> keys as they were.
C37_RejectionKeepsEventKeys ==
  [][(/\ pending' # pending /\ pending' \subseteq pending
      /\ task' = task
      /\ lastDone'.src = "supabase"
      /\ lastDone'.response \in Rejections)
     => eventKeys' = eventKeys]_vars


\* C38: when the guard answers 'Idempotent OK' to a request, a request with
\* the same x-idempotency-key was passed on to the handler before (stated
\* for the time up to the expiry of the key's first entry, for which hist
\* counts the requests of a key).
C38_IdempotentAfterPassed ==
  (/\ last.answer = "Idempotent OK"
   /\ last.t <= hist.keyFirst[last.key] + IDEMPOTENCY_TTL_MS)
  => hist.keyNext[last.key] >= 1

============================================================================
